---- MODULE Spec2Model ----
(***************************************************************************)
(* DataValidator (src/src/analysis.py): schema, pillar-rule and            *)
(* record-type validation of the unified records table; the model of       *)
(* FinancialInclusionAnalyzer of the same file follows it further down.    *)
(*                                                                         *)
(* A table (pandas DataFrame) is [columns, rows]: the set of column names  *)
(* and the sequence of rows, each row a function from the table's columns  *)
(* to cell values.  Cell values are strings; NA stands for a missing cell  *)
(* (NaN / None).  The validator reads value_numeric only through isna(),   *)
(* so a numeric cell is carried as its text.  Reading a column the table   *)
(* does not have raises KeyError, which ends the call.                     *)
(***************************************************************************)
EXTENDS Integers, Sequences, FiniteSets, TLC

\* TLC keeps the fields of a record in the order in which their names first
\* occur in the module. FieldOrder names every field once, in an order that
\* agrees with each record constructor below, so that every record is built
\* in the order TLC keeps it.
FieldOrder ==
    [none |-> TRUE, valid_indicators |-> TRUE, required_value_type |-> TRUE,
     columns |-> TRUE, rows |-> TRUE, outcome |-> TRUE, is_valid |-> TRUE,
     exception |-> TRUE, key |-> TRUE, check |-> TRUE, passed |-> TRUE,
     errors |-> TRUE, total_records |-> TRUE, all_valid |-> TRUE,
     schema_validation |-> TRUE, pillar_validation |-> TRUE,
     record_type_validation |-> TRUE, validation_log |-> TRUE,
     report |-> TRUE, log |-> TRUE, record_type |-> TRUE, op |-> TRUE,
     num |-> TRUE, den |-> TRUE, y |-> TRUE, m |-> TRUE, d |-> TRUE,
     event |-> TRUE, args |-> TRUE, result |-> TRUE, list |-> TRUE,
     message |-> TRUE, level |-> TRUE, text |-> TRUE, pillar |-> TRUE,
     values |-> TRUE, expected |-> TRUE, indicator |-> TRUE,
     indicator_code |-> TRUE, value_type |-> TRUE, year |-> TRUE,
     type |-> TRUE, previous_growth |-> TRUE, current_growth |-> TRUE,
     threshold |-> TRUE, event_date |-> TRUE, observation_date |-> TRUE,
     source_name |-> TRUE, confidence |-> TRUE, value_numeric |-> TRUE,
     value_text |-> TRUE, growth_rate |-> TRUE, growth_pp |-> TRUE,
     lag_months |-> TRUE, value |-> TRUE, logged |-> TRUE, category |-> TRUE,
     observations |-> TRUE, indicators |-> TRUE, years_coverage |-> TRUE,
     first_year |-> TRUE, last_year |-> TRUE, count |-> TRUE, ids |-> TRUE,
     years |-> TRUE, first |-> TRUE, last |-> TRUE, pct |-> TRUE,
     top |-> TRUE, events |-> TRUE, categories |-> TRUE,
     required_cols |-> TRUE, min_rows |-> TRUE, name |-> TRUE,
     default |-> TRUE]

VARIABLES df, validation_log, last, calls, observations, events, analyzer

vars == <<df, validation_log, last, calls, observations, events, analyzer>>

\* ------------------------------------------------------------------ bounds
MaxRows == 2
MaxCalls == 1

\* ------------------------------------------------- class-level constants
NA == "<NA>"

\* Python's None where a table is expected.
None == [none |-> TRUE]

REQUIRED_COLUMNS ==
    <<"record_id", "record_type", "pillar", "indicator", "indicator_code",
      "value_type", "observation_date", "source_name", "confidence">>

VALID_RECORD_TYPES == <<"observation", "event", "target">>
VALID_PILLARS == <<"ACCESS", "USAGE", "QUALITY", "AFFORDABILITY", "GENDER">>
VALID_VALUE_TYPES == <<"percentage", "absolute", "categorical", "ratio", "currency">>
VALID_CONFIDENCE_LEVELS == <<"high", "medium", "low">>

\* PILLAR_RULES.items() iterates in insertion order.
PILLAR_RULES_KEYS == <<"ACCESS", "USAGE", "GENDER", "AFFORDABILITY">>

PILLAR_RULES ==
    [p \in {"ACCESS", "USAGE", "GENDER", "AFFORDABILITY"} |->
        CASE p = "ACCESS" ->
               [valid_indicators |-> <<"ACC_OWNERSHIP", "MOBILE_MONEY_ACC", "BANK_BRANCH_DENSITY">>,
                required_value_type |-> <<"percentage", "ratio">>]
          [] p = "USAGE" ->
               [valid_indicators |-> <<"USG_P2P_COUNT", "USG_ATM_COUNT", "USG_TELEBIRR_VALUE", "USG_MPESA_USERS">>,
                required_value_type |-> <<"absolute", "currency", "percentage">>]
          [] p = "GENDER" ->
               [valid_indicators |-> <<"GENDER_GAP", "FEMALE_ACC_RATE", "MALE_ACC_RATE">>,
                required_value_type |-> <<"percentage">>]
          [] p = "AFFORDABILITY" ->
               [valid_indicators |-> <<"ACC_COST", "TRANSACTION_FEE">>,
                required_value_type |-> <<"currency", "percentage">>]]

\* ------------------------------------------------------- python helpers
\* set(list)
Set(s) == {s[i] : i \in 1..Len(s)}

\* str.split('_')[0]: the text before the first underscore (the whole
\* string when it has none).
SplitFirst(s) ==
    LET us == {i \in 1..Len(s) : SubSeq(s, i, i) = "_"}
    IN  IF us = {} THEN s
        ELSE SubSeq(s, 1, (CHOOSE i \in us : \A j \in us : i <= j) - 1)

\* str.startswith(prefix)
StartsWith(s, prefix) ==
    /\ Len(prefix) <= Len(s)
    /\ SubSeq(s, 1, Len(prefix)) = prefix

\* ------------------------------------------------------- pandas helpers
\* len(df)
NRows(t) == Len(t.rows)

\* df[df[col] == value]  (NaN == value is False)
WhereEq(t, col, value) ==
    [columns |-> t.columns,
     rows |-> SelectSeq(t.rows, LAMBDA r : r[col] = value)]

\* df[df[col].isna()]
WhereNa(t, col) ==
    [columns |-> t.columns,
     rows |-> SelectSeq(t.rows, LAMBDA r : r[col] = NA)]

\* df[df[col].notna()]
WhereNotNa(t, col) ==
    [columns |-> t.columns,
     rows |-> SelectSeq(t.rows, LAMBDA r : r[col] # NA)]

\* set(df[col].dropna())
DropNaSet(t, col) == {t.rows[i][col] : i \in 1..NRows(t)} \ {NA}

\* df[col].tolist()
ToList(t, col) == [i \in 1..NRows(t) |-> t.rows[i][col]]

\* The outcome of a call: a returned (is_valid, errors) pair or a raised
\* exception; log holds the entries the call appended to validation_log.
Return(is_valid, errors, log) ==
    [outcome |-> "return", is_valid |-> is_valid, errors |-> errors, log |-> log]

Raise(key, log) ==
    [outcome |-> "raise", exception |-> "KeyError", key |-> key, log |-> log]

LogEntry(check, passed, errors) ==
    [check |-> check, passed |-> passed, errors |-> errors]

\* An error message: the f-string's fixed text and the values it formats.
Err(text, values) == [text |-> text, values |-> values]

\* ------------------------------------------------------- validate_schema
\* missing_cols = set(REQUIRED_COLUMNS) - set(df.columns)
MissingCols(t) == Set(REQUIRED_COLUMNS) \ t.columns

\* Variant: the pillar check run over every row, not the observations only.
ObsDfAllRows(t) == t

\* obs_df = df[df['record_type'] == 'observation']
ObsDf(t) == WhereEq(t, "record_type", "observation")

InvalidTypes(t) == DropNaSet(t, "record_type") \ Set(VALID_RECORD_TYPES)

InvalidPillars(obs_df) == DropNaSet(obs_df, "pillar") \ Set(VALID_PILLARS)

InvalidVtypes(t) == DropNaSet(t, "value_type") \ Set(VALID_VALUE_TYPES)

\* Variant: the confidence check without dropna().
InvalidConfKeepNa(t) ==
    {t.rows[i]["confidence"] : i \in 1..NRows(t)} \ Set(VALID_CONFIDENCE_LEVELS)

InvalidConf(t) == DropNaSet(t, "confidence") \ Set(VALID_CONFIDENCE_LEVELS)

\* The errors list after the required-columns check.
SchemaColumnErrors(t) ==
    IF MissingCols(t) # {}
    THEN <<Err("Missing required columns", MissingCols(t))>>
    ELSE <<>>

\* Variant: the empty-table check made before the required-columns check.
SchemaEmptyReturnAlone(t) ==
    Return(FALSE, <<Err("DataFrame is empty", {})>>, <<>>)

\* Variant: the early return on an empty table made after the log entry.
SchemaEmptyReturnLogged(t) ==
    LET errors == Append(SchemaColumnErrors(t), Err("DataFrame is empty", {}))
    IN  Return(FALSE, errors, <<LogEntry("schema", FALSE, errors)>>)

\* The early return on an empty table: no print, no validation_log entry.
SchemaEmptyReturn(t) ==
    Return(FALSE, Append(SchemaColumnErrors(t), Err("DataFrame is empty", {})), <<>>)

\* The errors the four enumeration checks append, in order.  Only called
\* when the columns they read exist.
SchemaEnumErrors(t) ==
    LET obs_df == ObsDf(t)
    IN  (IF InvalidTypes(t) # {}
         THEN <<Err("Invalid record_types", InvalidTypes(t))>> ELSE <<>>)
        \o (IF NRows(obs_df) > 0 /\ InvalidPillars(obs_df) # {}
            THEN <<Err("Invalid pillars", InvalidPillars(obs_df))>> ELSE <<>>)
        \o (IF InvalidVtypes(t) # {}
            THEN <<Err("Invalid value_types", InvalidVtypes(t))>> ELSE <<>>)
        \o (IF InvalidConf(t) # {}
            THEN <<Err("Invalid confidence levels", InvalidConf(t))>> ELSE <<>>)

ValidateSchema(t) ==
    IF NRows(t) = 0 THEN SchemaEmptyReturn(t)
    ELSE IF "record_type" \notin t.columns THEN Raise("record_type", <<>>)
    ELSE IF NRows(ObsDf(t)) > 0 /\ "pillar" \notin t.columns THEN Raise("pillar", <<>>)
    ELSE IF "value_type" \notin t.columns THEN Raise("value_type", <<>>)
    ELSE IF "confidence" \notin t.columns THEN Raise("confidence", <<>>)
    ELSE LET errors == SchemaColumnErrors(t) \o SchemaEnumErrors(t)
             is_valid == Len(errors) = 0
         IN  Return(is_valid, errors, <<LogEntry("schema", is_valid, errors)>>)

\* ------------------------------------------------- validate_pillar_rules
\* row.get(col, default)
RowGet(row, col, default) == IF col \in DOMAIN row THEN row[col] ELSE default

\* Variant: the code's leading segment compared for equality.
IsValidPatternSegment(indicator_code, valid_indicators) ==
    \E i \in 1..Len(valid_indicators) :
        SplitFirst(indicator_code) = SplitFirst(valid_indicators[i])

\* any(indicator_code.startswith(valid_ind.split('_')[0]) for valid_ind in ...)
IsValidPattern(indicator_code, valid_indicators) ==
    \E i \in 1..Len(valid_indicators) :
        StartsWith(indicator_code, SplitFirst(valid_indicators[i]))

\* pillar_obs = obs_df[obs_df['pillar'] == pillar]
PillarObs(obs_df, pillar) == WhereEq(obs_df, "pillar", pillar)

\* The invalid_indicators list of one pillar, in row order.
InvalidIndicators(pillar_obs, rules) ==
    LET codes == [i \in 1..NRows(pillar_obs) |->
                     RowGet(pillar_obs.rows[i], "indicator_code", "")]
    IN  SelectSeq(codes, LAMBDA c :
            c # NA /\ ~IsValidPattern(c, rules.valid_indicators))

\* invalid_vtypes of one pillar
PillarInvalidVtypes(pillar_obs, rules) ==
    DropNaSet(pillar_obs, "value_type") \ Set(rules.required_value_type)

\* The errors one iteration of the pillar loop appends.
PillarErrors(obs_df, pillar) ==
    LET rules == PILLAR_RULES[pillar]
        pillar_obs == PillarObs(obs_df, pillar)
        invalid_indicators == InvalidIndicators(pillar_obs, rules)
        invalid_vtypes == PillarInvalidVtypes(pillar_obs, rules)
    IN  IF NRows(pillar_obs) = 0 THEN <<>>
        ELSE (IF invalid_indicators # <<>>
              THEN <<[text |-> "Unexpected indicator codes", pillar |-> pillar,
                      values |-> Set(invalid_indicators)]>>
              ELSE <<>>)
             \o (IF invalid_vtypes # {} /\ rules.required_value_type # <<>>
                 THEN <<[text |-> "Invalid value types", pillar |-> pillar,
                         values |-> invalid_vtypes,
                         expected |-> rules.required_value_type]>>
                 ELSE <<>>)

\* Variant: the loop left at the first pillar that has errors.
PillarLoopStopAtFirst(obs_df) ==
    LET RECURSIVE loop(_)
        loop(k) == IF k > Len(PILLAR_RULES_KEYS) THEN <<>>
                   ELSE IF PillarErrors(obs_df, PILLAR_RULES_KEYS[k]) # <<>>
                        THEN PillarErrors(obs_df, PILLAR_RULES_KEYS[k])
                        ELSE loop(k + 1)
    IN  loop(1)

\* The loop over PILLAR_RULES.items(), errors accumulated in order.
PillarLoop(obs_df) ==
    LET RECURSIVE loop(_)
        loop(k) == IF k > Len(PILLAR_RULES_KEYS) THEN <<>>
                   ELSE PillarErrors(obs_df, PILLAR_RULES_KEYS[k]) \o loop(k + 1)
    IN  loop(1)

ValidatePillarRules(t) ==
    IF "record_type" \notin t.columns THEN Raise("record_type", <<>>)
    ELSE IF "pillar" \notin t.columns THEN Raise("pillar", <<>>)
    ELSE IF /\ "value_type" \notin t.columns
            /\ \E k \in 1..Len(PILLAR_RULES_KEYS) :
                   NRows(PillarObs(ObsDf(t), PILLAR_RULES_KEYS[k])) > 0
         THEN Raise("value_type", <<>>)
    ELSE LET errors == PillarLoop(ObsDf(t))
             is_valid == Len(errors) = 0
         IN  Return(is_valid, errors, <<LogEntry("pillar_rules", is_valid, errors)>>)

\* ------------------------------------------------- validate_record_types
\* "<n> <what>: <record ids>": the count and the ids of the violating rows.
RowsErr(text, violators) ==
    [text |-> text, count |-> NRows(violators), ids |-> ToList(violators, "record_id")]

\* One check's contribution to errors.
RowsCheck(text, violators) ==
    IF NRows(violators) > 0 THEN <<RowsErr(text, violators)>> ELSE <<>>

EventsDf(t) == WhereEq(t, "record_type", "event")

TargetsDf(t) == WhereEq(t, "record_type", "target")

ObsNoPillar(t) == WhereNa(ObsDf(t), "pillar")

\* Variant: | in place of &.
ObsNoValueEither(t) ==
    [columns |-> t.columns,
     rows |-> SelectSeq(ObsDf(t).rows,
                  LAMBDA r : r["value_numeric"] = NA \/ r["value_text"] = NA)]

\* obs_df[(obs_df['value_numeric'].isna()) & (obs_df['value_text'].isna())]
ObsNoValue(t) ==
    [columns |-> t.columns,
     rows |-> SelectSeq(ObsDf(t).rows,
                  LAMBDA r : r["value_numeric"] = NA /\ r["value_text"] = NA)]

EventsNoCat(t) == WhereNa(EventsDf(t), "category")

EventsWithPillar(t) == WhereNotNa(EventsDf(t), "pillar")

TargetsNoPillar(t) == WhereNa(TargetsDf(t), "pillar")

\* The errors of the five checks, in order.  Only called when the columns
\* they read exist.
RecordTypeErrors(t) ==
    RowsCheck("observations missing pillar", ObsNoPillar(t))
    \o RowsCheck("observations missing value", ObsNoValue(t))
    \o (IF NRows(EventsDf(t)) > 0
        THEN RowsCheck("events missing category", EventsNoCat(t))
             \o RowsCheck("events incorrectly have pillar", EventsWithPillar(t))
        ELSE <<>>)
    \o (IF NRows(TargetsDf(t)) > 0
        THEN RowsCheck("targets missing pillar", TargetsNoPillar(t))
        ELSE <<>>)

ValidateRecordTypes(t) ==
    LET has(c) == c \in t.columns
    IN
    IF ~has("record_type") THEN Raise("record_type", <<>>)
    ELSE IF ~has("pillar") THEN Raise("pillar", <<>>)
    ELSE IF NRows(ObsNoPillar(t)) > 0 /\ ~has("record_id") THEN Raise("record_id", <<>>)
    ELSE IF ~has("value_numeric") THEN Raise("value_numeric", <<>>)
    ELSE IF ~has("value_text") THEN Raise("value_text", <<>>)
    ELSE IF NRows(ObsNoValue(t)) > 0 /\ ~has("record_id") THEN Raise("record_id", <<>>)
    ELSE IF NRows(EventsDf(t)) > 0 /\ ~has("category") THEN Raise("category", <<>>)
    ELSE IF /\ ~has("record_id")
            /\ \/ NRows(EventsDf(t)) > 0
                  /\ NRows(EventsNoCat(t)) + NRows(EventsWithPillar(t)) > 0
               \/ NRows(TargetsNoPillar(t)) > 0
         THEN Raise("record_id", <<>>)
    ELSE LET errors == RecordTypeErrors(t)
             is_valid == Len(errors) = 0
         IN  Return(is_valid, errors, <<LogEntry("record_types", is_valid, errors)>>)

\* ---------------------------------------------------------- validate_all
\* Variant: the record-type result left out of the conjunction.
AllValidWithoutTypes(schema_valid, pillar_valid, type_valid) ==
    schema_valid /\ pillar_valid

\* all_valid = schema_valid and pillar_valid and type_valid
AllValid(schema_valid, pillar_valid, type_valid) ==
    schema_valid /\ pillar_valid /\ type_valid

\* The report dictionary; log is self.validation_log when it is built.
Report(t, s, p, r, log) ==
    [total_records |-> NRows(t),
     all_valid |-> AllValid(s.is_valid, p.is_valid, r.is_valid),
     schema_validation |-> [passed |-> s.is_valid, errors |-> s.errors],
     pillar_validation |-> [passed |-> p.is_valid, errors |-> p.errors],
     record_type_validation |-> [passed |-> r.is_valid, errors |-> r.errors],
     validation_log |-> log]

\* Variant: the verdict taken over the whole log, earlier calls included.
ValidateAllOverLog(t, log) ==
    LET s == ValidateSchema(t)
        p == ValidatePillarRules(t)
        r == ValidateRecordTypes(t)
        verdict == /\ AllValid(s.is_valid, p.is_valid, r.is_valid)
                   /\ \A k \in 1..Len(log) : log[k].passed
    IN  IF s.outcome = "raise" THEN Raise(s.key, s.log)
        ELSE IF p.outcome = "raise" THEN Raise(p.key, s.log \o p.log)
        ELSE IF r.outcome = "raise" THEN Raise(r.key, s.log \o p.log \o r.log)
        ELSE [outcome |-> "return",
              is_valid |-> verdict,
              report |-> [Report(t, s, p, r, log \o s.log \o p.log \o r.log)
                             EXCEPT !.all_valid = verdict],
              log |-> s.log \o p.log \o r.log]

\* The three sub-validators run in order on the same table; an exception of
\* one ends the call, the entries of the earlier ones stay in the log.
ValidateAll(t, log) ==
    LET s == ValidateSchema(t)
        p == ValidatePillarRules(t)
        r == ValidateRecordTypes(t)
    IN  IF s.outcome = "raise" THEN Raise(s.key, s.log)
        ELSE IF p.outcome = "raise" THEN Raise(p.key, s.log \o p.log)
        ELSE IF r.outcome = "raise" THEN Raise(r.key, s.log \o p.log \o r.log)
        ELSE [outcome |-> "return",
              is_valid |-> AllValid(s.is_valid, p.is_valid, r.is_valid),
              report |-> Report(t, s, p, r, log \o s.log \o p.log \o r.log),
              log |-> s.log \o p.log \o r.log]

\* ------------------------------------------------------------ input tables
\* The columns the validator reads: the required ones and the three
\* optional ones validate_record_types uses.
AllColumns == Set(REQUIRED_COLUMNS) \cup {"value_numeric", "value_text", "category"}

RecordIds == <<"REC_0001", "REC_0002", "REC_0003", "REC_0004">>

Row(rt, pillar, code, vt, conf, vnum, vtext, cat) ==
    [record_type |-> rt, pillar |-> pillar, indicator |-> "Indicator",
     indicator_code |-> code, value_type |-> vt,
     observation_date |-> "2024-12-31", source_name |-> "Source",
     confidence |-> conf, value_numeric |-> vnum, value_text |-> vtext,
     category |-> cat]

\* Rows that exercise the enumeration checks of validate_schema.
SchemaRows ==
    { Row("observation", "ACCESS", "ACC_OWNERSHIP", "percentage", "high", "46.0", NA, NA),
      Row("event", NA, "EVT_TELEBIRR", "categorical", "medium", NA, "Launched", "product_launch"),
      Row("target", "ACCESS", "ACC_OWNERSHIP", "percentage", "low", "70.0", NA, NA),
      Row("forecast", "ACCESS", "ACC_OWNERSHIP", "percentage", "high", "46.0", NA, NA),
      Row("survey", "PENSIONS", "ACC_OWNERSHIP", "score", "high", "46.0", NA, NA),
      Row(NA, "SAVINGS", "ACC_OWNERSHIP", "percentage", "high", "46.0", NA, NA),
      Row("observation", "SAVINGS", "ACC_OWNERSHIP", "index", "unknown", "46.0", NA, NA),
      Row("observation", "INSURANCE", "ACC_OWNERSHIP", "percentage", "high", "46.0", NA, NA),
      Row("event", "SAVINGS", "EVT_TELEBIRR", "categorical", "high", NA, "Launched", "product_launch"),
      Row("observation", NA, "ACC_OWNERSHIP", NA, NA, "46.0", NA, NA),
      Row("observation", "ACCESS", "ACC_OWNERSHIP", "index", "high", "46.0", NA, NA),
      Row("observation", "ACCESS", "ACC_OWNERSHIP", "percentage", "unknown", "46.0", NA, NA) }

\* Rows that exercise the indicator-code and value-type rules per pillar.
PillarRows ==
    { Row("observation", "ACCESS", "ACC_OWNERSHIP", "percentage", "high", "46.0", NA, NA),
      Row("observation", "ACCESS", "ACCESS_X", "ratio", "high", "46.0", NA, NA),
      Row("observation", "ACCESS", "BANK", "percentage", "high", "46.0", NA, NA),
      Row("observation", "ACCESS", "AC_X", "percentage", "high", "46.0", NA, NA),
      Row("observation", "ACCESS", "USG_P2P_COUNT", "absolute", "high", "46.0", NA, NA),
      Row("observation", "ACCESS", NA, NA, "high", "46.0", NA, NA),
      Row("observation", "USAGE", "USG_ATM_COUNT", "absolute", "high", "46.0", NA, NA),
      Row("observation", "USAGE", "P2P_COUNT", "ratio", "high", "46.0", NA, NA),
      Row("observation", "GENDER", "MALE_ACC_RATE", "percentage", "high", "46.0", NA, NA),
      Row("observation", "GENDER", "FEM_RATE", "currency", "high", "46.0", NA, NA),
      Row("observation", "AFFORDABILITY", "TRANSACTION_FEE", "currency", "high", "46.0", NA, NA),
      Row("observation", "AFFORDABILITY", "COST_ACC", "absolute", "high", "46.0", NA, NA),
      Row("observation", "QUALITY", "ZZZ", "index", "high", "46.0", NA, NA),
      Row("target", "USAGE", "ZZZ", "ratio", "high", "46.0", NA, NA) }

\* Rows that exercise the record-type checks of validate_record_types.
RecordTypeRows ==
    { Row("observation", "ACCESS", "ACC_OWNERSHIP", "percentage", "high", "46.0", NA, NA),
      Row("event", NA, "EVT_TELEBIRR", "categorical", "medium", NA, "Launched", "product_launch"),
      Row("target", "ACCESS", "ACC_OWNERSHIP", "percentage", "low", "70.0", NA, NA),
      Row("observation", NA, "ACC_OWNERSHIP", "percentage", "high", "46.0", NA, NA),
      Row("observation", "ACCESS", "ACC_OWNERSHIP", "percentage", "high", NA, NA, NA),
      Row("observation", NA, "ACC_OWNERSHIP", "percentage", "high", NA, NA, NA),
      Row("observation", "QUALITY", "QLT_RATING", "categorical", "high", NA, "good", NA),
      Row("observation", "ACCESS", "ACC_OWNERSHIP", "percentage", "high", "46.0", NA, "policy_change"),
      Row("event", NA, "EVT_TELEBIRR", "categorical", "medium", NA, "Launched", NA),
      Row("event", "ACCESS", "EVT_TELEBIRR", "categorical", "medium", NA, "Launched", "product_launch"),
      Row("event", "USAGE", "EVT_TELEBIRR", "categorical", "medium", NA, "Launched", NA),
      Row("event", NA, "EVT_TELEBIRR", "categorical", "medium", "1.0", NA, "product_launch"),
      Row("target", NA, "ACC_OWNERSHIP", "percentage", "low", "70.0", NA, NA) }

RowFamilies == {SchemaRows, PillarRows, RecordTypeRows}

\* The column sets a caller's table may lack.
DropChoices ==
    {{}} \cup {{c} : c \in AllColumns} \cup {AllColumns}

\* A DataFrame of the given rows without the dropped columns; record_id is
\* the row's position.
MkTable(rows, dropped) ==
    [columns |-> AllColumns \ dropped,
     rows |-> [i \in 1..Len(rows) |->
                 [c \in AllColumns \ dropped |->
                     IF c = "record_id" THEN RecordIds[i] ELSE rows[i][c]]]]

\* The row sequences of at most MaxRows rows of one family.
RowSeqs == UNION { UNION { [1..n -> F] : n \in 0..MaxRows } : F \in RowFamilies }

\* The tables a caller passes in; pd.DataFrame() is the table with no column
\* and no row.
Tables ==
    { MkTable(rows, dropped) : rows \in RowSeqs, dropped \in DropChoices \ {AllColumns} }
    \cup { MkTable(<<>>, AllColumns) }

\* --------------------------------------------------------- state machine
\* No FinancialInclusionAnalyzer has been asked for: the caller holds no
\* observations and no events table.
NoAnalyzer ==
    /\ observations = None
    /\ events = None
    /\ analyzer = "unconstructed"

\* A fresh DataValidator (validation_log = []) and the table its caller holds.
Init ==
    /\ df \in Tables
    /\ validation_log = <<>>
    /\ last = [op |-> "none"]
    /\ calls = 0
    /\ NoAnalyzer

\* A call: its outcome is kept in last, its log entries are appended.
Call(op, result) ==
    /\ calls < MaxCalls
    /\ calls' = calls + 1
    /\ last' = [op |-> op, result |-> [f \in DOMAIN result \ {"log"} |-> result[f]]]
    /\ validation_log' = validation_log \o result.log
    /\ UNCHANGED <<df, observations, events, analyzer>>

validate_schema == Call("validate_schema", ValidateSchema(df))

validate_pillar_rules == Call("validate_pillar_rules", ValidatePillarRules(df))

validate_record_types == Call("validate_record_types", ValidateRecordTypes(df))

validate_all == Call("validate_all", ValidateAll(df, validation_log))

Next ==
    \/ validate_schema
    \/ validate_pillar_rules
    \/ validate_record_types
    \/ validate_all

Spec == Init /\ [][Next]_vars

\* ================================================================ claims
\* What the last call was and how it ended.
Called(op) == last.op = op

Returned(op) == last.op = op /\ last.result.outcome = "return"

\* The required columns the table lacks, read off the table.
LackingRequired ==
    {c \in {REQUIRED_COLUMNS[i] : i \in 1..Len(REQUIRED_COLUMNS)} : c \notin df.columns}

RowIdx == 1..Len(df.rows)

\* The non-missing values of an enumerated column that lie outside its
\* enumeration, over the rows the schema check of that column looks at.
Offending(col, enum, observationsOnly) ==
    {v \in {df.rows[i][col] : i \in RowIdx} :
        /\ v # NA
        /\ \A k \in 1..Len(enum) : enum[k] # v
        /\ \E i \in RowIdx :
              /\ df.rows[i][col] = v
              /\ observationsOnly => df.rows[i]["record_type"] = "observation"}

\* ------------------------------------------------------------------- C1
\* C1: whenever validate_schema is called on a table that lacks a required
\* column, it returns (does not raise) is_valid = False and its errors hold
\* the missing-columns error naming exactly the lacking columns.
C1_MissingColumnsReported ==
    (Called("validate_schema") /\ LackingRequired # {}) =>
        /\ last.result.outcome = "return"
        /\ last.result.is_valid = FALSE
        /\ \E i \in 1..Len(last.result.errors) :
              last.result.errors[i] = Err("Missing required columns", LackingRequired)

\* ------------------------------------------------------------------- C2
\* Every non-missing record_type, pillar, value_type and confidence value of
\* the table lies within its enumeration.
AllWithinEnumerations ==
    /\ Offending("record_type", VALID_RECORD_TYPES, FALSE) = {}
    /\ Offending("pillar", VALID_PILLARS, FALSE) = {}
    /\ Offending("value_type", VALID_VALUE_TYPES, FALSE) = {}
    /\ Offending("confidence", VALID_CONFIDENCE_LEVELS, FALSE) = {}

\* C2 as stated: on every table with all nine required columns whose
\* enumerated values are all within their enumerations, validate_schema
\* returns is_valid = True with no errors.
C2_Original ==
    (Called("validate_schema") /\ LackingRequired = {} /\ AllWithinEnumerations) =>
        /\ last.result.outcome = "return"
        /\ last.result.is_valid = TRUE
        /\ last.result.errors = <<>>

\* C2 amended: the same for every table that has at least one row.
C2_ValidSchemaPasses ==
    (/\ Called("validate_schema")
     /\ Len(df.rows) > 0
     /\ LackingRequired = {}
     /\ AllWithinEnumerations) =>
        /\ last.result.outcome = "return"
        /\ last.result.is_valid = TRUE
        /\ last.result.errors = <<>>

\* validate_schema passed a two-row table one of whose enumerated cells is
\* missing.
C2_Witness ==
    /\ Returned("validate_schema")
    /\ Len(df.rows) = 2
    /\ LackingRequired = {}
    /\ AllWithinEnumerations
    /\ \E i \in RowIdx : df.rows[i]["confidence"] = NA
    /\ last.result.is_valid

\* ------------------------------------------------------------------- C3
\* C3 as stated: on a table with zero rows validate_schema returns
\* is_valid = False with exactly one error, the empty-table error, whatever
\* the table's columns.
C3_Original ==
    (Called("validate_schema") /\ Len(df.rows) = 0) =>
        /\ last.result.outcome = "return"
        /\ last.result.is_valid = FALSE
        /\ last.result.errors = <<Err("DataFrame is empty", {})>>

\* C3 amended: on a table with zero rows validate_schema returns
\* is_valid = False, the last error is the empty-table error, it is preceded
\* by the missing-columns error exactly when a required column is lacking,
\* and no enumeration check is evaluated (no further error, no KeyError),
\* whatever the table's columns.
C3_EmptyTableReturn ==
    (Called("validate_schema") /\ Len(df.rows) = 0) =>
        /\ last.result.outcome = "return"
        /\ last.result.is_valid = FALSE
        /\ last.result.errors =
              IF LackingRequired = {}
              THEN <<Err("DataFrame is empty", {})>>
              ELSE <<Err("Missing required columns", LackingRequired),
                     Err("DataFrame is empty", {})>>

\* validate_schema returned on an empty table that has no record_type column.
C3_Witness ==
    /\ Returned("validate_schema")
    /\ Len(df.rows) = 0
    /\ "record_type" \notin df.columns
    /\ Len(last.result.errors) = 2

\* ------------------------------------------------------------------- C4
\* The enumeration checks in the order validate_schema makes them.
SchemaChecks ==
    <<"Invalid record_types", "Invalid pillars", "Invalid value_types",
      "Invalid confidence levels">>

OffendingOf(text) ==
    CASE text = "Invalid record_types" -> Offending("record_type", VALID_RECORD_TYPES, FALSE)
      [] text = "Invalid pillars" -> Offending("pillar", VALID_PILLARS, TRUE)
      [] text = "Invalid value_types" -> Offending("value_type", VALID_VALUE_TYPES, FALSE)
      [] text = "Invalid confidence levels" -> Offending("confidence", VALID_CONFIDENCE_LEVELS, FALSE)

\* C4: on a non-empty table with all required columns the errors of
\* validate_schema are exactly one entry per enumeration check that has an
\* offending non-missing value, in the order record_type, pillar (observation
\* rows only), value_type, confidence, each carrying the set of offending
\* values; is_valid is True iff there is no error.
C4_AllEnumerationChecks ==
    (Called("validate_schema") /\ Len(df.rows) > 0 /\ LackingRequired = {}) =>
        /\ last.result.outcome = "return"
        /\ last.result.errors =
              LET failing == SelectSeq(SchemaChecks, LAMBDA x : OffendingOf(x) # {})
              IN  [i \in 1..Len(failing) |-> Err(failing[i], OffendingOf(failing[i]))]
        /\ last.result.is_valid = (last.result.errors = <<>>)

\* validate_schema reported all four enumeration errors on a table that also
\* holds a non-observation row with an out-of-enumeration pillar.
C4_Witness ==
    /\ Returned("validate_schema")
    /\ LackingRequired = {}
    /\ Len(last.result.errors) = 4
    /\ \E i \in RowIdx :
          /\ df.rows[i]["record_type"] # "observation"
          /\ df.rows[i]["pillar"] \notin {NA} \cup {VALID_PILLARS[k] : k \in 1..Len(VALID_PILLARS)}

\* ------------------------------------------------------------------- C5
RulePillars == {"ACCESS", "USAGE", "GENDER", "AFFORDABILITY"}

\* The text before the first underscore of each registered example code.
LeadingSegments ==
    [p \in RulePillars |->
        CASE p = "ACCESS" -> {"ACC", "MOBILE", "BANK"}
          [] p = "USAGE" -> {"USG"}
          [] p = "GENDER" -> {"GENDER", "FEMALE", "MALE"}
          [] p = "AFFORDABILITY" -> {"ACC", "TRANSACTION"}]

\* The text of code before its first underscore is seg.
LeadingSegmentIs(code, seg) ==
    /\ \E k \in 0..Len(code) :
          /\ SubSeq(code, 1, k) = seg
          /\ k < Len(code) => SubSeq(code, k + 1, k + 1) = "_"
    /\ \A j \in 1..Len(seg) : SubSeq(seg, j, j) # "_"

\* code begins with seg.
BeginsWith(code, seg) == \E k \in 0..Len(code) : SubSeq(code, 1, k) = seg

\* The non-missing indicator codes of the observation rows of pillar p.
CodesOf(p) ==
    {df.rows[i]["indicator_code"] : i \in
        {j \in RowIdx : /\ df.rows[j]["record_type"] = "observation"
                        /\ df.rows[j]["pillar"] = p
                        /\ df.rows[j]["indicator_code"] # NA}}

\* The codes the 'Unexpected indicator codes' error of pillar p names (none
\* when there is no such error).
ReportedCodes(p) ==
    UNION {last.result.errors[i].values : i \in
        {j \in 1..Len(last.result.errors) :
            /\ last.result.errors[j].text = "Unexpected indicator codes"
            /\ last.result.errors[j].pillar = p}}

\* C5 as stated: validate_pillar_rules accepts an observation's indicator code
\* under a rule pillar iff the text before its first underscore equals the
\* leading segment of one of the pillar's registered codes, and reports every
\* other non-missing code.
C5_Original ==
    (Returned("validate_pillar_rules") /\ "indicator_code" \in df.columns) =>
        \A p \in RulePillars :
            ReportedCodes(p) =
                {c \in CodesOf(p) : ~\E seg \in LeadingSegments[p] : LeadingSegmentIs(c, seg)}

\* C5 amended: the code is accepted iff the code itself begins with the
\* leading segment of one of the pillar's registered codes (ACCESS_X is
\* accepted against ACC); every other non-missing code is reported.
C5_PrefixAccepted ==
    (Returned("validate_pillar_rules") /\ "indicator_code" \in df.columns) =>
        \A p \in RulePillars :
            ReportedCodes(p) =
                {c \in CodesOf(p) : ~\E seg \in LeadingSegments[p] : BeginsWith(c, seg)}

\* validate_pillar_rules accepted ACCESS_X and reported AC_X under ACCESS.
C5_Witness ==
    /\ Returned("validate_pillar_rules")
    /\ "indicator_code" \in df.columns
    /\ CodesOf("ACCESS") = {"ACCESS_X", "AC_X"}
    /\ ReportedCodes("ACCESS") = {"AC_X"}

\* ------------------------------------------------------------------- C6
\* The 'Invalid value types' errors of pillar p.
ValueTypeErrors(p) ==
    {j \in 1..Len(last.result.errors) :
        /\ last.result.errors[j].text = "Invalid value types"
        /\ last.result.errors[j].pillar = p}

\* The non-missing value types of pillar p's observation rows that the
\* pillar does not allow.
DisallowedValueTypes(p) ==
    {df.rows[i]["value_type"] : i \in
        {j \in RowIdx : /\ df.rows[j]["record_type"] = "observation"
                        /\ df.rows[j]["pillar"] = p
                        /\ df.rows[j]["value_type"] # NA
                        /\ \A k \in 1..Len(PILLAR_RULES[p].required_value_type) :
                              PILLAR_RULES[p].required_value_type[k] # df.rows[j]["value_type"]}}

\* C6: validate_pillar_rules appends a value-type error for pillar p exactly
\* when p is a rule pillar and an observation row of p has a non-missing
\* value_type outside p's allowed ones (one error per such pillar, naming the
\* offending and the allowed set, whatever the other pillars' errors); every
\* error belongs to a rule pillar that has observation rows, so QUALITY
\* observations never contribute one.
C6_ValueTypeErrors ==
    Returned("validate_pillar_rules") =>
        /\ \A p \in RulePillars :
              /\ (ValueTypeErrors(p) # {}) <=> (DisallowedValueTypes(p) # {})
              /\ Cardinality(ValueTypeErrors(p)) <= 1
              /\ \A j \in ValueTypeErrors(p) :
                    /\ last.result.errors[j].values = DisallowedValueTypes(p)
                    /\ last.result.errors[j].expected = PILLAR_RULES[p].required_value_type
        /\ \A j \in 1..Len(last.result.errors) :
              /\ last.result.errors[j].pillar \in RulePillars
              /\ \E i \in RowIdx :
                    /\ df.rows[i]["record_type"] = "observation"
                    /\ df.rows[i]["pillar"] = last.result.errors[j].pillar
        /\ last.result.is_valid = (last.result.errors = <<>>)

\* validate_pillar_rules reported value-type errors for two pillars at once.
C6_Witness ==
    /\ Returned("validate_pillar_rules")
    /\ ValueTypeErrors("ACCESS") # {}
    /\ ValueTypeErrors("USAGE") # {}

\* ------------------------------------------------------------------- C7
\* row.get(col): the cell, missing when the table has no such column.
Cell(i, col) == IF col \in df.columns THEN df.rows[i][col] ELSE NA

IsA(i, rt) == Cell(i, "record_type") = rt

\* The five checks of validate_record_types in order, and the rows that
\* violate each.
RecordTypeChecks ==
    <<"observations missing pillar", "observations missing value",
      "events missing category", "events incorrectly have pillar",
      "targets missing pillar">>

Violators(text) ==
    CASE text = "observations missing pillar" ->
            {i \in RowIdx : IsA(i, "observation") /\ Cell(i, "pillar") = NA}
      [] text = "observations missing value" ->
            {i \in RowIdx : /\ IsA(i, "observation")
                            /\ Cell(i, "value_numeric") = NA
                            /\ Cell(i, "value_text") = NA}
      [] text = "events missing category" ->
            {i \in RowIdx : IsA(i, "event") /\ Cell(i, "category") = NA}
      [] text = "events incorrectly have pillar" ->
            {i \in RowIdx : IsA(i, "event") /\ Cell(i, "pillar") # NA}
      [] text = "targets missing pillar" ->
            {i \in RowIdx : IsA(i, "target") /\ Cell(i, "pillar") = NA}

\* The record ids of the rows in S, in table order.
IdsIn(S) ==
    LET idx == SelectSeq([i \in RowIdx |-> i], LAMBDA i : i \in S)
    IN  [k \in 1..Len(idx) |-> df.rows[idx[k]]["record_id"]]

RecordTypeInvariants ==
    \A i \in RowIdx :
        /\ IsA(i, "observation") =>
              /\ Cell(i, "pillar") # NA
              /\ Cell(i, "value_numeric") # NA \/ Cell(i, "value_text") # NA
              /\ Cell(i, "category") = NA
        /\ IsA(i, "event") =>
              /\ Cell(i, "category") # NA
              /\ Cell(i, "pillar") = NA
              /\ Cell(i, "value_numeric") = NA

\* C8: every table for which validate_all reports all_valid = True satisfies
\* the record-type invariants: an observation has a pillar, a value and no
\* category; an event has a category and neither a pillar nor a value_numeric.
C8_AllValidImpliesInvariants ==
    (Returned("validate_all") /\ last.result.is_valid) => RecordTypeInvariants

\* ------------------------------------------------------------------- C9
\* C9: a validate_all that returns gives all_valid = the conjunction of what
\* validate_schema, validate_pillar_rules and validate_record_types return on
\* the same table, total_records = the row count, and in each sub-report the
\* passed flag and errors of the corresponding sub-validator; a table that
\* passes the three yields all_valid and passed everywhere.
C9_ValidateAllComposes ==
    Returned("validate_all") =>
        LET s == ValidateSchema(df)
            p == ValidatePillarRules(df)
            r == ValidateRecordTypes(df)
            report == last.result.report
        IN  /\ s.outcome = "return" /\ p.outcome = "return" /\ r.outcome = "return"
            /\ last.result.is_valid = (s.is_valid /\ p.is_valid /\ r.is_valid)
            /\ report.all_valid = last.result.is_valid
            /\ report.total_records = Len(df.rows)
            /\ report.schema_validation = [passed |-> s.is_valid, errors |-> s.errors]
            /\ report.pillar_validation = [passed |-> p.is_valid, errors |-> p.errors]
            /\ report.record_type_validation = [passed |-> r.is_valid, errors |-> r.errors]

\* validate_all returned all_valid = False on a two-row table that passes the
\* schema and pillar checks and fails only the record-type check.
C9_Witness ==
    /\ Returned("validate_all")
    /\ Len(df.rows) = 2
    /\ ~last.result.is_valid
    /\ last.result.report.schema_validation.passed
    /\ last.result.report.pillar_validation.passed
    /\ ~last.result.report.record_type_validation.passed

\* ------------------------------------------------------------------ C10
\* C10: validate_pillar_rules, validate_record_types and validate_all never
\* raise, whatever table they are given: a table that lacks a column a check
\* reads yields a returned result.
C10_NeverRaises ==
    (\/ Called("validate_pillar_rules")
     \/ Called("validate_record_types")
     \/ Called("validate_all")) => last.result.outcome = "return"

\* ============================================ FinancialInclusionAnalyzer
(***************************************************************************)
(* FinancialInclusionAnalyzer (src/src/analysis.py, lines 19-319).         *)
(*                                                                         *)
(* Its tables have text cells (indicator_code, pillar, confidence,         *)
(* indicator, category; NA when missing), an integer year, a value_numeric *)
(* counted in tenths (20.0 is 200, 0.3 is 3), and dates [y, m, d] with NaT *)
(* for a missing date.  Thresholds and percentage-point changes are in     *)
(* tenths as well.  A computed cell that may be NaN is NaN or Num(v).      *)
(* A call ends in Returns(value) or in Raises(exception).                  *)
(***************************************************************************)
NaN == <<>>

Num(v) == <<v>>

\* pd.notna on a computed cell
NotNa(cell) == cell # NaN

\* abs()
Abs(v) == IF v < 0 THEN -v ELSE v

IsNone(t) == "none" \in DOMAIN t

\* pd.DataFrame()
EmptyFrame == [columns |-> {}, rows |-> <<>>]

Returns(value) == [outcome |-> "return", value |-> value]

Raises(exception) == [outcome |-> "raise", exception |-> exception]

\* DataFrame.sort_values on one column, ascending; keys[i] is the sort key
\* of rows[i]: rows in the order of their keys, rows of equal key in their
\* original order.
SortValues(rows, keys) ==
    LET n == Len(rows)
        Rank(i) == Cardinality({j \in 1..n :
                        \/ keys[j] < keys[i]
                        \/ keys[j] = keys[i] /\ j < i}) + 1
    IN  [p \in 1..n |-> rows[CHOOSE i \in 1..n : Rank(i) = p]]

\* ---------------------------------------------------------------- __init__
\* the required columns without year
REQUIRED_COLS_WITHOUT_YEAR == {"indicator_code", "value_numeric"}

\* required_cols = ['indicator_code', 'year', 'value_numeric']
ANALYZER_REQUIRED_COLS == {"indicator_code", "year", "value_numeric"}

\* FinancialInclusionAnalyzer(observations, events): raises AnalysisError,
\* or returns with self.observations and self.events set to its arguments.
AnalyzerInit(obs, evts) ==
    IF IsNone(obs) \/ NRows(obs) = 0
    THEN Raises("AnalysisError")
    ELSE IF ANALYZER_REQUIRED_COLS \ obs.columns # {}
         THEN Raises("AnalysisError")
         ELSE Returns("analyzer")

\* --------------------------------------------------- calculate_growth_rate
\* Series.diff() at position i
Diff(rows, i) ==
    IF i = 1 THEN NaN
    ELSE Num(rows[i].value_numeric - rows[i - 1].value_numeric)

\* Series.pct_change() * 100 at position i, as the exact fraction num / den
\* (den = 0 is a division by zero: inf, -inf or nan)
PctChange(rows, i) ==
    IF i = 1 THEN NaN
    ELSE Num([num |-> (rows[i].value_numeric - rows[i - 1].value_numeric) * 100,
              den |-> rows[i - 1].value_numeric])

\* the rows of one indicator left in table order, without .sort_values('year')
IndicatorInTableOrder(obs, code) == WhereEq(obs, "indicator_code", code).rows

\* the rows of one indicator, sorted on year
IndicatorByYear(obs, code) ==
    LET rows == WhereEq(obs, "indicator_code", code).rows
    IN  SortValues(rows, [i \in 1..Len(rows) |-> rows[i].year])

\* row i of growth[['year', 'value_numeric', 'growth_rate', 'growth_pp']]
GrowthRow(data, i) ==
    [year |-> data[i].year,
     value_numeric |-> data[i].value_numeric,
     growth_rate |-> PctChange(data, i),
     growth_pp |-> Diff(data, i)]

\* the frame without the row of the first point: one row per consecutive pair
GrowthFramePairsOnly(data) ==
    [columns |-> {"year", "value_numeric", "growth_rate", "growth_pp"},
     rows |-> [i \in 1..(Len(data) - 1) |-> GrowthRow(data, i + 1)]]

\* growth[['year', 'value_numeric', 'growth_rate', 'growth_pp']]
GrowthFrame(data) ==
    [columns |-> {"year", "value_numeric", "growth_rate", "growth_pp"},
     rows |-> [i \in 1..Len(data) |-> GrowthRow(data, i)]]

\* the guard "if len(data) < 2" read as "if len(data) < 1"
TooFewPointsOnlyWhenNone(data) == Len(data) < 1

\* if len(data) < 2
TooFewPoints(data) == Len(data) < 2

CalculateGrowthRate(obs, code) ==
    IF code = ""
    THEN Returns(EmptyFrame)
    ELSE LET data == IndicatorByYear(obs, code)
         IN  IF TooFewPoints(data)
             THEN Returns(EmptyFrame)
             ELSE Returns(GrowthFrame(data))

\* self.observations after calculate_growth_rate: the two computed columns
\* are assigned to growth, a copy of the filtered rows.
ObservationsAfterGrowthInPlace(obs, growth) ==
    IF growth.outcome = "return" /\ growth.value # EmptyFrame
    THEN growth.value
    ELSE obs

ObservationsAfterGrowth(obs, growth) == obs

\* -------------------------------------------------- identify_trend_changes
DEFAULT_THRESHOLD == 5

\* abs(current['growth_pp']) < threshold, with the comparison turned round
IsBelowOrAt(cell, threshold) == NotNa(cell) /\ Abs(cell[1]) <= threshold

\* pd.notna(current['growth_pp']) and abs(current['growth_pp']) < threshold
IsBelow(cell, threshold) == NotNa(cell) /\ Abs(cell[1]) < threshold

\* pd.notna(previous['growth_pp']) and abs(previous['growth_pp']) >= threshold
IsAtLeast(cell, threshold) == NotNa(cell) /\ Abs(cell[1]) >= threshold

\* the positions appended were the preceding row not looked at
SlowdownAtAnyBelow(growth, threshold) ==
    {i \in 2..Len(growth) : IsBelow(growth[i].growth_pp, threshold)}

\* the positions the loop appends a change for
SlowdownAt(growth, threshold) ==
    {i \in 2..Len(growth) :
        /\ IsBelow(growth[i].growth_pp, threshold)
        /\ IsAtLeast(growth[i - 1].growth_pp, threshold)}

RECURSIVE TrendLoop(_, _, _)
\* the loop over range(1, len(growth)), from position i (1-based) on
TrendLoop(growth, threshold, i) ==
    IF i > Len(growth) THEN <<>>
    ELSE (IF i \in SlowdownAt(growth, threshold)
          THEN <<[year |-> growth[i].year,
                  type |-> "slowdown",
                  previous_growth |-> growth[i - 1].growth_pp,
                  current_growth |-> growth[i].growth_pp]>>
          ELSE <<>>) \o TrendLoop(growth, threshold, i + 1)

IdentifyTrendChanges(obs, code, threshold) ==
    LET growth == CalculateGrowthRate(obs, code)
    IN  IF growth.outcome = "raise"
        THEN Raises("AnalysisError")
        ELSE IF growth.value.rows = <<>>
             THEN Returns(<<>>)
             ELSE Returns(TrendLoop(growth.value.rows, threshold, 2))

\* ------------------------------------------------------------- timestamps
NaT == [y |-> 0, m |-> 0, d |-> 0]

IsLeap(y) == (y % 4 = 0 /\ y % 100 # 0) \/ y % 400 = 0

DaysInMonth(y, m) ==
    IF m = 2 THEN (IF IsLeap(y) THEN 29 ELSE 28)
    ELSE IF m \in {4, 6, 9, 11} THEN 30 ELSE 31

RECURSIVE DaysBeforeMonth(_, _)
DaysBeforeMonth(y, m) ==
    IF m = 1 THEN 0 ELSE DaysBeforeMonth(y, m - 1) + DaysInMonth(y, m - 1)

\* the day number of a date (proleptic Gregorian ordinal), so that
\* (a - b).days is ToOrdinal(a) - ToOrdinal(b)
ToOrdinal(date) ==
    LET y == date.y - 1
    IN  365 * y + (y \div 4) - (y \div 100) + (y \div 400)
        + DaysBeforeMonth(date.y, date.m) + date.d

\* date - pd.DateOffset(months=k): k calendar months back, the day of the
\* month kept, or the last day of the target month when that is shorter
MinusMonths(date, k) ==
    LET total == date.y * 12 + (date.m - 1) - k
        y == total \div 12
        m == (total % 12) + 1
        last_day == DaysInMonth(y, m)
    IN  [y |-> y, m |-> m, d |-> IF date.d > last_day THEN last_day ELSE date.d]

\* round(num / den, 1) in tenths, for num >= 0 and den > 0 (half rounds up;
\* num / 30 never falls on a half of a tenth)
RoundTenths(num, den) == (20 * num + den) \div (2 * den)

\* ------------------------------------------------- find_event_correlations
DEFAULT_LAG_MONTHS == 6

DAYS_PER_MONTH == 30

\* self.events is None
EventsUnavailableNoneOnly(evts) == IsNone(evts)

\* self.events is None or len(self.events) == 0
EventsUnavailable(evts) == IsNone(evts) \/ NRows(evts) = 0

\* a guard that never fires
NeverLacks(t, col) == FALSE

\* col not in t.columns
Lacks(t, col) == col \notin t.columns

\* the window with its start excluded
InWindowAfterStart(eventDate, obsDate, lag) ==
    /\ eventDate # NaT
    /\ ToOrdinal(eventDate) > ToOrdinal(MinusMonths(obsDate, lag))
    /\ ToOrdinal(eventDate) <= ToOrdinal(obsDate)

\* (event_date >= event_window_start) & (event_date <= event_window_end);
\* a comparison with NaT is False
InWindow(eventDate, obsDate, lag) ==
    /\ eventDate # NaT
    /\ ToOrdinal(eventDate) >= ToOrdinal(MinusMonths(obsDate, lag))
    /\ ToOrdinal(eventDate) <= ToOrdinal(obsDate)

\* the lag in whole calendar months between the two dates, in tenths
LagMonthsCalendar(obsDate, eventDate) ==
    10 * ((obsDate.y * 12 + obsDate.m) - (eventDate.y * 12 + eventDate.m))

\* round((observation_date - event_date).days / 30, 1), in tenths
LagMonths(obsDate, eventDate) ==
    RoundTenths(ToOrdinal(obsDate) - ToOrdinal(eventDate), DAYS_PER_MONTH)

\* the dict appended for one observation and one relevant event
CorrelationRow(obs, event, event_columns) ==
    [event |-> IF "indicator" \in event_columns THEN event.indicator ELSE "Unknown",
     event_date |-> event.event_date,
     observation_date |-> obs.observation_date,
     lag_months |-> LagMonths(obs.observation_date, event.event_date),
     value |-> obs.value_numeric]

\* the body of the loop over indicator_data for one observation
ObsCorrelations(obs, evts, lag) ==
    IF obs.observation_date = NaT THEN <<>>
    ELSE LET relevant_events ==
                 SelectSeq(evts.rows,
                     LAMBDA e : InWindow(e.event_date, obs.observation_date, lag))
         IN  [k \in 1..Len(relevant_events) |->
                 CorrelationRow(obs, relevant_events[k], evts.columns)]

RECURSIVE CorrelationLoop(_, _, _, _)
\* the loop over indicator_data, from position i on
CorrelationLoop(indicator_data, evts, lag, i) ==
    IF i > Len(indicator_data) THEN <<>>
    ELSE ObsCorrelations(indicator_data[i], evts, lag)
         \o CorrelationLoop(indicator_data, evts, lag, i + 1)

\* pd.DataFrame(correlations)
CorrelationFrame(correlations) ==
    IF correlations = <<>> THEN EmptyFrame
    ELSE [columns |-> {"event", "event_date", "observation_date", "lag_months", "value"},
          rows |-> correlations]

\* a sort key that leaves the rows as they are stored
DateKeyStored(date) == 0

\* sort key of observation_date: NaT sorts last
DateKey(date) == IF date = NaT THEN ToOrdinal([y |-> 9999, m |-> 12, d |-> 31]) + 1
                 ELSE ToOrdinal(date)

\* Past the two column guards both date columns exist; reading a column a
\* table lacks would raise KeyError, which the outer except clause turns
\* into AnalysisError.
FindEventCorrelations(obs, evts, code, lag) ==
    IF EventsUnavailable(evts) THEN Returns(EmptyFrame)
    ELSE IF Lacks(obs, "observation_date") THEN Returns(EmptyFrame)
    ELSE IF Lacks(evts, "event_date") THEN Returns(EmptyFrame)
    ELSE IF "observation_date" \notin obs.columns \/ "event_date" \notin evts.columns
         THEN Raises("AnalysisError")
    ELSE LET rows == WhereEq(obs, "indicator_code", code).rows
             indicator_data ==
                 SortValues(rows, [i \in 1..Len(rows) |-> DateKey(rows[i].observation_date)])
         IN  IF Len(indicator_data) = 0 THEN Returns(EmptyFrame)
             ELSE Returns(CorrelationFrame(CorrelationLoop(indicator_data, evts, lag, 1)))

\* ------------------------------------------------------ analyze_gender_gap
\* 'GAP' in s  (str.contains with a literal)
Contains(s, sub) ==
    \E i \in 1..(Len(s) - Len(sub) + 1) : SubSeq(s, i, i + Len(sub) - 1) = sub

\* df[cols]
Project(rows, cols) == [i \in 1..Len(rows) |-> [c \in cols |-> rows[i][c]]]

\* a missing pillar column raising the typed error
GenderGapNoPillarRaises == Raises("AnalysisError")

\* 'pillar' not in self.observations.columns: a warning and pd.DataFrame()
GenderGapNoPillar == Returns(EmptyFrame)

AnalyzeGenderGap(obs) ==
    IF "pillar" \notin obs.columns THEN GenderGapNoPillar
    ELSE LET rows == WhereEq(obs, "pillar", "GENDER").rows
             gender_data == SortValues(rows, [i \in 1..Len(rows) |-> rows[i].year])
             gap_data == SelectSeq(gender_data,
                             LAMBDA r : r.indicator_code # NA /\ Contains(r.indicator_code, "GAP"))
             available_cols ==
                 {"year", "indicator_code", "value_numeric", "indicator"} \cap obs.columns
         IN  IF Len(gender_data) = 0 THEN Returns(EmptyFrame)
             ELSE IF Len(gap_data) = 0 THEN Returns(EmptyFrame)
             ELSE Returns([columns |-> available_cols,
                           rows |-> Project(gap_data, available_cols)])

\* --------------------------------------------------------- compare_pillars
RECURSIVE Unique(_)
\* Series.unique(): the values in order of first appearance
Unique(s) ==
    IF s = <<>> THEN <<>>
    ELSE LET front == Unique(SubSeq(s, 1, Len(s) - 1))
             x == s[Len(s)]
         IN  IF x \in Set(front) THEN front ELSE Append(front, x)

Min(S) == CHOOSE v \in S : \A w \in S : v <= w

Max(S) == CHOOSE v \in S : \A w \in S : v >= w

\* the dict appended for one pillar
PillarSummary(obs, pillar) ==
    LET pillar_obs == WhereEq(obs, "pillar", pillar)
        years == Set(ToList(pillar_obs, "year"))
    IN  [pillar |-> pillar,
         observations |-> NRows(pillar_obs),
         indicators |-> Cardinality(Set(ToList(pillar_obs, "indicator_code")) \ {NA}),
         years_coverage |-> Cardinality(years),
         first_year |-> Min(years),
         last_year |-> Max(years)]

\* a missing pillar column answered with pd.DataFrame()
ComparePillarsNoPillarEmpty == Returns(EmptyFrame)

\* 'pillar' not in self.observations.columns: AnalysisError, wrapped again
\* into AnalysisError by the except clause
ComparePillarsNoPillar == Raises("AnalysisError")

\* compare_pillars without the pd.isna(pillar) skip: the rows without a
\* pillar summarised as one more pillar
ComparePillarsCountingMissing(obs) ==
    IF "pillar" \notin obs.columns THEN ComparePillarsNoPillar
    ELSE LET pillars == Unique(ToList(obs, "pillar"))
         IN  IF Len(pillars) = 0 THEN Returns(EmptyFrame)
             ELSE Returns([columns |-> {"pillar", "observations", "indicators",
                                        "years_coverage", "first_year", "last_year"},
                           rows |-> [k \in 1..Len(pillars) |->
                                        PillarSummary(obs, pillars[k])]])

ComparePillars(obs) ==
    IF "pillar" \notin obs.columns THEN ComparePillarsNoPillar
    ELSE LET pillars == SelectSeq(Unique(ToList(obs, "pillar")), LAMBDA p : p # NA)
         IN  IF Len(pillars) = 0 THEN Returns(EmptyFrame)
             ELSE Returns([columns |-> {"pillar", "observations", "indicators",
                                        "years_coverage", "first_year", "last_year"},
                           rows |-> [k \in 1..Len(pillars) |->
                                        PillarSummary(obs, pillars[k])]])

\* -------------------------------------------------------- get_key_insights
RECENT_FROM_YEAR == 2024

\* value_counts().index[0]: a pillar with the most rows (the first to
\* appear, of several)
TopPillar(obs) ==
    LET pillars == SelectSeq(Unique(ToList(obs, "pillar")), LAMBDA p : p # NA)
        Count(p) == NRows(WhereEq(obs, "pillar", p))
        best == CHOOSE k \in 1..Len(pillars) :
                    /\ \A j \in 1..Len(pillars) : Count(pillars[j]) <= Count(pillars[k])
                    /\ \A j \in 1..(k - 1) : Count(pillars[j]) < Count(pillars[k])
    IN  [pillar |-> pillars[best], observations |-> Count(pillars[best])]

\* count / len(self.observations) * 100, as the exact fraction num / den
\* that the f-string formats to one decimal
Percent(count, total) == [num |-> count * 100, den |-> total]

\* the first four insights
ObservationInsights(obs) ==
    LET years == Set(ToList(obs, "year"))
        recent_data == SelectSeq(obs.rows, LAMBDA r : r.year >= RECENT_FROM_YEAR)
        high_conf == SelectSeq(obs.rows, LAMBDA r : r.confidence = "high")
    IN  << [text |-> "Dataset spans", years |-> Max(years) - Min(years) + 1,
            first |-> Min(years), last |-> Max(years)],
           [text |-> "of observations are from 2024 onwards",
            pct |-> Percent(Len(recent_data), NRows(obs))],
           [text |-> "pillar has the most data", top |-> TopPillar(obs)],
           [text |-> "of observations have high confidence",
            pct |-> Percent(Len(high_conf), NRows(obs))] >>

\* the fifth insight
EventInsight(evts) ==
    [text |-> "events documented across categories",
     events |-> NRows(evts),
     categories |-> Cardinality(Set(ToList(evts, "category")) \ {NA})]

GetKeyInsights(obs, evts) ==
    IF "pillar" \notin obs.columns THEN Raises("KeyError")
    ELSE IF \A i \in 1..NRows(obs) : obs.rows[i].pillar = NA THEN Raises("IndexError")
    ELSE IF "confidence" \notin obs.columns THEN Raises("KeyError")
    ELSE IF EventsUnavailable(evts) THEN Returns(ObservationInsights(obs))
    ELSE IF "category" \notin evts.columns THEN Raises("KeyError")
    ELSE Returns(Append(ObservationInsights(obs), EventInsight(evts)))

\* ---------------------------------------------------------- analyzer inputs
MaxPoints == 4
MaxEvents == 2

ObsColumns ==
    {"indicator_code", "year", "value_numeric", "observation_date",
     "pillar", "confidence", "indicator"}

EventColumns == {"indicator", "event_date", "category"}

Date(y, m, d) == [y |-> y, m |-> m, d |-> d]

ObsRow(code, year, value, date, pillar, confidence) ==
    [pillar |-> pillar, indicator |-> code, indicator_code |-> code,
     year |-> year, observation_date |-> date, confidence |-> confidence,
     value_numeric |-> value]

EventRow(name, date, category) ==
    [indicator |-> name, event_date |-> date, category |-> category]

\* A DataFrame of the given rows without the dropped columns.
Frame(columns, rows, dropped) ==
    [columns |-> columns \ dropped,
     rows |-> [i \in 1..Len(rows) |-> [c \in columns \ dropped |-> rows[i][c]]]]

\* Growth series: up to MaxPoints yearly points of ACC_OWNERSHIP (the first
\* row may belong to USG_MM instead), stored in or against year order, with
\* values among 20.0, 22.0, 25.0, 29.5 and 29.8.
GrowthValues == {200, 220, 250, 295, 298}

SeriesYear(i) == 2011 + 3 * i

GrowthSeries(values, firstCode, ascending) ==
    [i \in 1..Len(values) |->
        LET year == SeriesYear(IF ascending THEN i ELSE Len(values) + 1 - i)
        IN  ObsRow(IF i = 1 THEN firstCode ELSE "ACC_OWNERSHIP",
                   year, values[i], Date(year, 12, 1), "ACCESS", "high")]

GrowthInputs ==
    { [observations |-> Frame(ObsColumns, GrowthSeries(values, firstCode, ascending), {}),
       events |-> None] :
        values \in UNION { [1..n -> GrowthValues] : n \in 1..MaxPoints },
        firstCode \in {"ACC_OWNERSHIP", "USG_MM"},
        ascending \in BOOLEAN }

\* Dated observations and events around the window of 2021-12-01 with a lag
\* of six months (2021-06-01 to 2021-12-01) and of 2021-08-31 (from
\* 2021-02-28).
DatedObservations ==
    { <<ObsRow("ACC_OWNERSHIP", 2021, 460, Date(2021, 12, 1), "ACCESS", "high")>>,
      <<ObsRow("ACC_OWNERSHIP", 2021, 450, Date(2021, 8, 31), "ACCESS", "high")>>,
      <<ObsRow("ACC_OWNERSHIP", 2021, 440, NaT, "ACCESS", "high")>>,
      <<ObsRow("ACC_OWNERSHIP", 2021, 460, Date(2021, 12, 1), "ACCESS", "high"),
        ObsRow("USG_MM", 2021, 90, Date(2021, 12, 1), "USAGE", "medium"),
        ObsRow("ACC_OWNERSHIP", 2021, 450, Date(2021, 8, 31), "ACCESS", "high")>> }

EventDates ==
    { Date(2021, 1, 1), Date(2021, 2, 28), Date(2021, 5, 31), Date(2021, 6, 1),
      Date(2021, 7, 1), Date(2021, 12, 1), Date(2021, 12, 2), NaT }

EventSeqs ==
    UNION { [1..n -> {EventRow("Telebirr launch", date, "product_launch") :
                          date \in EventDates}] : n \in 0..MaxEvents }

FewEvents ==
    { <<>>,
      <<EventRow("Telebirr launch", Date(2021, 7, 1), "product_launch")>>,
      <<EventRow("Telebirr launch", Date(2021, 7, 1), "product_launch"),
        EventRow("NBE directive", Date(2021, 12, 1), "policy")>> }

CorrelationInputs ==
    { [observations |-> Frame(ObsColumns, obs, {}),
       events |-> Frame(EventColumns, evts, {})] :
        obs \in DatedObservations, evts \in EventSeqs }
    \cup
    { [observations |-> Frame(ObsColumns, obs, obsDropped),
       events |-> Frame(EventColumns, evts, evtDropped)] :
        obs \in DatedObservations, obsDropped \in {{}, {"observation_date"}},
        evts \in FewEvents, evtDropped \in {{}} \cup {{c} : c \in EventColumns} }
    \cup
    { [observations |-> Frame(ObsColumns, obs, obsDropped), events |-> None] :
        obs \in DatedObservations, obsDropped \in {{}, {"observation_date"}} }

\* Observations of several pillars, some cells missing, any one column
\* absent; no table at all; with and without events.
PillarObservations ==
    { ObsRow("GEN_GAP_ACC", 2021, 200, Date(2021, 12, 1), "GENDER", "high"),
      ObsRow("GEN_MM_SHARE", 2024, 140, Date(2024, 11, 29), "GENDER", "medium"),
      ObsRow("ACC_OWNERSHIP", 2014, 220, Date(2014, 12, 31), "ACCESS", "high"),
      ObsRow("ACC_OWNERSHIP", 2017, 350, Date(2017, 12, 31), NA, NA) }

StructureInputs ==
    { [observations |-> Frame(ObsColumns, obs, obsDropped),
       events |-> IF withEvents THEN Frame(EventColumns, evts, {}) ELSE None] :
        obs \in UNION { [1..n -> PillarObservations] : n \in 0..MaxRows },
        obsDropped \in {{}} \cup {{c} : c \in ObsColumns},
        evts \in FewEvents, withEvents \in BOOLEAN }
    \cup
    { [observations |-> None, events |-> None],
      [observations |-> None, events |-> Frame(EventColumns, <<>>, {})],
      [observations |-> EmptyFrame, events |-> None] }

CodeArgs == {"", "ACC_OWNERSHIP", "USG_MM", "UNKNOWN"}

Thresholds == {-5, 0, DEFAULT_THRESHOLD, 50}

Lags == {0, DEFAULT_LAG_MONTHS}

\* ------------------------------------------------- analyzer state machine
\* The caller holds an observations table and an events table (or None) and
\* has not constructed the analyzer yet; no validator is in play.
AnalyzerStart(inputs) ==
    /\ \E input \in inputs :
          /\ observations = input.observations
          /\ events = input.events
    /\ analyzer = "unconstructed"
    /\ last = [op |-> "none"]
    /\ df = EmptyFrame
    /\ validation_log = <<>>
    /\ calls = 0

\* FinancialInclusionAnalyzer(observations, events)
analyzer_init ==
    /\ analyzer = "unconstructed"
    /\ LET result == AnalyzerInit(observations, events)
       IN  /\ analyzer' = IF result.outcome = "return" THEN "constructed" ELSE "failed"
           /\ last' = [op |-> "__init__", args |-> <<>>, result |-> result]
    /\ UNCHANGED <<df, validation_log, calls, observations, events>>

\* A method call on the constructed analyzer: its outcome is kept in last;
\* observationsAfter is what self.observations holds when it ends.
Method(op, args, result, observationsAfter) ==
    /\ analyzer = "constructed"
    /\ last' = [op |-> op, args |-> args, result |-> result]
    /\ observations' = observationsAfter
    /\ UNCHANGED <<df, validation_log, calls, events, analyzer>>

calculate_growth_rate ==
    \E code \in CodeArgs :
        LET result == CalculateGrowthRate(observations, code)
        IN  Method("calculate_growth_rate", [indicator_code |-> code], result,
                   ObservationsAfterGrowth(observations, result))

identify_trend_changes ==
    \E code \in CodeArgs, threshold \in Thresholds :
        Method("identify_trend_changes",
               [indicator_code |-> code, threshold |-> threshold],
               IdentifyTrendChanges(observations, code, threshold),
               ObservationsAfterGrowth(observations,
                                       CalculateGrowthRate(observations, code)))

analyze_gender_gap ==
    Method("analyze_gender_gap", <<>>, AnalyzeGenderGap(observations), observations)

compare_pillars ==
    Method("compare_pillars", <<>>, ComparePillars(observations), observations)

find_event_correlations ==
    \E code \in CodeArgs, lag \in Lags :
        Method("find_event_correlations",
               [indicator_code |-> code, lag_months |-> lag],
               FindEventCorrelations(observations, events, code, lag), observations)

get_key_insights ==
    Method("get_key_insights", <<>>, GetKeyInsights(observations, events), observations)

\* The analyzer over tables of several pillars: construction and every method.
InitAnalyzer == AnalyzerStart(StructureInputs)

NextAnalyzer ==
    \/ analyzer_init
    \/ calculate_growth_rate
    \/ identify_trend_changes
    \/ analyze_gender_gap
    \/ compare_pillars
    \/ find_event_correlations
    \/ get_key_insights

SpecAnalyzer == InitAnalyzer /\ [][NextAnalyzer]_vars

\* The growth methods over growth series.
InitGrowth == AnalyzerStart(GrowthInputs)

NextGrowth ==
    \/ analyzer_init
    \/ calculate_growth_rate
    \/ identify_trend_changes

SpecGrowth == InitGrowth /\ [][NextGrowth]_vars

\* The event correlation over dated observations and events.
InitCorrelation == AnalyzerStart(CorrelationInputs)

NextCorrelation ==
    \/ analyzer_init
    \/ find_event_correlations

SpecCorrelation == InitCorrelation /\ [][NextCorrelation]_vars

\* --------------------------------------------------------------- sessions
MaxSessionCalls == 2

\* The tables a caller may pass to a call, whatever table it passed before:
\* a valid one, one with errors in every check, one without its confidence
\* column, one without its pillar column, one with every column and no row,
\* and pd.DataFrame().  (Taking the
\* previous table as an argument makes TLC build the tables anew at each
\* step instead of sharing one cached value between its workers.)
TablesToPass(previous) ==
    { MkTable(<<Row("observation", "ACCESS", "ACC_OWNERSHIP", "percentage", "high", "46.0", NA, NA),
                Row("event", NA, "EVT_TELEBIRR", "categorical", "medium", NA, "Launched", "product_launch")>>,
              {}),
      MkTable(<<Row("forecast", "ACCESS", "BANK", "ratio", "high", "46.0", NA, NA),
                Row("observation", NA, "ACC_OWNERSHIP", "percentage", "high", NA, NA, NA)>>,
              {}),
      MkTable(<<Row("observation", "ACCESS", "ACC_OWNERSHIP", "percentage", "high", "46.0", NA, NA)>>,
              {"confidence"}),
      MkTable(<<Row("observation", "ACCESS", "ACC_OWNERSHIP", "percentage", "high", "46.0", NA, NA)>>,
              {"pillar"}),
      MkTable(<<>>, {}),
      MkTable(<<>>, AllColumns) }

\* The tables of a session.
SessionTables == TablesToPass(<<>>)

\* One DataValidator used for up to MaxSessionCalls calls, each on any of
\* the session's tables; df is the table of the latest call, and no table
\* has been passed when the validator is constructed.
InitSession ==
    /\ df = EmptyFrame
    /\ validation_log = <<>>
    /\ last = [op |-> "none"]
    /\ calls = 0
    /\ NoAnalyzer

SessionCall(op, t, result) ==
    /\ calls < MaxSessionCalls
    /\ calls' = calls + 1
    /\ df' = t
    /\ last' = [op |-> op, result |-> [f \in DOMAIN result \ {"log"} |-> result[f]]]
    /\ validation_log' = validation_log \o result.log
    /\ UNCHANGED <<observations, events, analyzer>>

session_validate_schema ==
    \E t \in TablesToPass(df) : SessionCall("validate_schema", t, ValidateSchema(t))

session_validate_pillar_rules ==
    \E t \in TablesToPass(df) : SessionCall("validate_pillar_rules", t, ValidatePillarRules(t))

session_validate_record_types ==
    \E t \in TablesToPass(df) : SessionCall("validate_record_types", t, ValidateRecordTypes(t))

session_validate_all ==
    \E t \in TablesToPass(df) : SessionCall("validate_all", t, ValidateAll(t, validation_log))

NextSession ==
    \/ session_validate_schema
    \/ session_validate_pillar_rules
    \/ session_validate_record_types
    \/ session_validate_all

SpecSession == InitSession /\ [][NextSession]_vars

\* A validator and an analyzer side by side, each on its own tables.
FrameInputs ==
    { [observations |->
           Frame(ObsColumns, GrowthSeries(<<200, 250, 295, 298>>, "ACC_OWNERSHIP", FALSE), {}),
       events |-> None],
      [observations |->
           Frame(ObsColumns,
                 <<ObsRow("GEN_GAP_ACC", 2021, 200, Date(2021, 12, 1), "GENDER", "high"),
                   ObsRow("ACC_OWNERSHIP", 2021, 460, Date(2021, 12, 1), "ACCESS", "high"),
                   ObsRow("ACC_OWNERSHIP", 2017, 350, Date(2017, 12, 31), NA, NA)>>, {}),
       events |->
           Frame(EventColumns,
                 <<EventRow("Telebirr launch", Date(2021, 7, 1), "product_launch")>>, {})],
      [observations |->
           Frame(ObsColumns,
                 <<ObsRow("ACC_OWNERSHIP", 2014, 220, Date(2014, 12, 31), "ACCESS", "high")>>,
                 {"pillar"}),
       events |-> Frame(EventColumns, <<>>, {})],
      [observations |-> None, events |-> None] }

InitFrame ==
    /\ df \in SessionTables
    /\ validation_log = <<>>
    /\ calls = 0
    /\ last = [op |-> "none"]
    /\ analyzer = "unconstructed"
    /\ \E input \in FrameInputs :
          /\ observations = input.observations
          /\ events = input.events

NextFrame == Next \/ NextAnalyzer

SpecFrame == InitFrame /\ [][NextFrame]_vars

\* ================================================================ claims
\* ------------------------------------------------------------------ C11
\* C11: no operation changes a table it is given.  Across every step of
\* every run - a call of validate_schema, validate_pillar_rules,
\* validate_record_types or validate_all on the validator's table, the
\* construction of the analyzer, a call of calculate_growth_rate,
\* identify_trend_changes, analyze_gender_gap, compare_pillars,
\* find_event_correlations or get_key_insights - the validator's table, the
\* observations table and the events table keep their rows, columns and
\* values.
C11_InputsUnchanged ==
    [][df' = df /\ observations' = observations /\ events' = events]_vars

\* A growth table was computed from the observations after a validator call.
C11_Witness ==
    /\ calls > 0
    /\ Returned("calculate_growth_rate")
    /\ last.result.value # EmptyFrame
    /\ NRows(observations) = 4

\* ------------------------------------------------------------------ C12
\* The outcome of validate_all on table t by a validator that was never
\* used before.
FreshValidateAll(t) ==
    LET result == ValidateAll(t, <<>>)
    IN  [f \in DOMAIN result \ {"log"} |-> result[f]]

\* An outcome without the validation_log entry of its report.
WithoutLog(result) ==
    IF result.outcome = "return"
    THEN [result EXCEPT !.report =
             [f \in DOMAIN result.report \ {"validation_log"} |-> result.report[f]]]
    ELSE result

Unusable(obs) ==
    \/ IsNone(obs)
    \/ Len(obs.rows) = 0
    \/ \E c \in {"indicator_code", "year", "value_numeric"} : c \notin obs.columns

\* C13: constructing FinancialInclusionAnalyzer raises AnalysisError and
\* yields no analyzer whenever observations is None, has zero rows, or lacks
\* one of indicator_code, year, value_numeric; in every other case the
\* construction succeeds, whether events is a table or None.
C13_ConstructionGuard ==
    analyzer # "unconstructed" =>
        /\ Unusable(observations) =>
              /\ analyzer = "failed"
              /\ last = [op |-> "__init__", args |-> <<>>,
                         result |-> [outcome |-> "raise", exception |-> "AnalysisError"]]
        /\ ~Unusable(observations) => analyzer = "constructed"

\* The construction was refused for a table that has rows but no year column.
C13_Witness ==
    /\ analyzer = "failed"
    /\ ~IsNone(observations)
    /\ Len(observations.rows) > 0
    /\ "year" \notin observations.columns
    /\ ~IsNone(events)

\* ------------------------------------------------------------------ C14
\* The code the last method call was made for, and the data points of that
\* indicator in the observations table (their years are distinct).
AskedCode == last.args.indicator_code

SeriesOf(code) == {r \in Set(observations.rows) : r.indicator_code = code}

NPoints(code) == Cardinality(SeriesOf(code))

\* The k-th point of the indicator in year order.
PointAt(code, k) ==
    CHOOSE r \in SeriesOf(code) :
        Cardinality({q \in SeriesOf(code) : q.year <= r.year}) = k

\* The change of the k-th point against the one before it (k >= 2), in tenths.
ChangeAt(code, k) ==
    PointAt(code, k).value_numeric - PointAt(code, k - 1).value_numeric

\* The series [(2014, 20.0), (2017, 22.0)]
IsTwoPointExample(code) ==
    {<<r.year, r.value_numeric>> : r \in SeriesOf(code)} = {<<2014, 200>>, <<2017, 220>>}

\* C14 as stated: on an indicator with n >= 2 points calculate_growth_rate
\* returns n - 1 rows, one per consecutive pair.
C14_Original ==
    (Returned("calculate_growth_rate") /\ AskedCode # "" /\ NPoints(AskedCode) >= 2) =>
        Len(last.result.value.rows) = NPoints(AskedCode) - 1

\* C14: on an indicator with n >= 2 points calculate_growth_rate returns n
\* rows, one per point in year order: the first has no growth_rate and no
\* growth_pp (NaN), every later one carries the change from the point before
\* it.  On [(2014, 20.0), (2017, 22.0)] it returns two rows, the second with
\* year = 2017, growth_pp = +2.0 and growth_rate = +10.0 %.
C14_OneRowPerPoint ==
    (Returned("calculate_growth_rate") /\ AskedCode # "" /\ NPoints(AskedCode) >= 2) =>
        LET rows == last.result.value.rows
            n == NPoints(AskedCode)
        IN  /\ Len(rows) = n
            /\ \A k \in 1..n :
                  /\ rows[k].year = PointAt(AskedCode, k).year
                  /\ rows[k].value_numeric = PointAt(AskedCode, k).value_numeric
            /\ rows[1].growth_pp = NaN /\ rows[1].growth_rate = NaN
            /\ \A k \in 2..n :
                  /\ rows[k].growth_pp = <<ChangeAt(AskedCode, k)>>
                  /\ rows[k].growth_rate # NaN
            /\ IsTwoPointExample(AskedCode) =>
                  /\ rows[2].year = 2017
                  /\ rows[2].growth_pp = <<20>>
                  /\ rows[2].growth_rate[1].num = 10 * rows[2].growth_rate[1].den

\* calculate_growth_rate returned for the series [(2014, 20.0), (2017, 22.0)].
C14_Witness ==
    /\ Returned("calculate_growth_rate")
    /\ IsTwoPointExample(AskedCode)
    /\ Len(last.result.value.rows) = 2

\* ------------------------------------------------------------------ C15
\* C15: calculate_growth_rate returns an empty result, without raising,
\* whenever the code is empty, is unknown to the observations, or has fewer
\* than two observations.
C15_EmptyWhenInsufficient ==
    (Called("calculate_growth_rate")
        /\ (AskedCode = "" \/ NPoints(AskedCode) = 0 \/ NPoints(AskedCode) < 2)) =>
        last.result = [outcome |-> "return", value |-> [columns |-> {}, rows |-> <<>>]]

\* calculate_growth_rate was asked for an indicator that has one observation,
\* in a table that holds other observations too.
C15_Witness ==
    /\ Called("calculate_growth_rate")
    /\ NPoints(AskedCode) = 1
    /\ Len(observations.rows) > 2
    /\ last.result.outcome = "return"
    /\ last.result.value.rows = <<>>

\* ------------------------------------------------------------------ C16
\* The points (by position in year order) whose own change and whose
\* predecessor's change are both defined, the own one below the threshold in
\* size and the predecessor's at or above it.  The first point has no change.
FlaggedPoints(code, threshold) ==
    {k \in 3..NPoints(code) :
        /\ Abs(ChangeAt(code, k)) < threshold
        /\ Abs(ChangeAt(code, k - 1)) >= threshold}

SlowdownOf(code, k) ==
    [year |-> PointAt(code, k).year,
     type |-> "slowdown",
     previous_growth |-> <<ChangeAt(code, k - 1)>>,
     current_growth |-> <<ChangeAt(code, k)>>]

\* The series with the changes [+5.0, +4.5, +0.3]
IsSlowdownExample(code) ==
    /\ NPoints(code) = 4
    /\ \A k \in 2..4 : ChangeAt(code, k) = <<0, 50, 45, 3>>[k]

\* C16: identify_trend_changes reports exactly the flagged points, in year
\* order, each with its year, type 'slowdown', previous_growth and
\* current_growth; a point is flagged iff its change and the preceding
\* point's change are both defined, |change| < threshold and |preceding
\* change| >= threshold.  With changes [+5.0, +4.5, +0.3] and threshold 0.5
\* exactly the +0.3 point is reported; the first point is never reported.
C16_SlowdownExactlyWhenFlagged ==
    Returned("identify_trend_changes") =>
        LET changes == last.result.value
            code == AskedCode
            flagged == IF code = "" THEN {} ELSE FlaggedPoints(code, last.args.threshold)
        IN  /\ Len(changes) = Cardinality(flagged)
            /\ {changes[j] : j \in 1..Len(changes)} = {SlowdownOf(code, k) : k \in flagged}
            /\ \A i, j \in 1..Len(changes) : i < j => changes[i].year < changes[j].year
            /\ \A j \in 1..Len(changes) : changes[j].year # PointAt(code, 1).year
            /\ (IsSlowdownExample(code) /\ last.args.threshold = 5) =>
                  /\ Len(changes) = 1
                  /\ changes[1].current_growth = <<3>>
                  /\ changes[1].previous_growth = <<45>>

\* identify_trend_changes ran with threshold 0.5 on the series with the
\* changes [+5.0, +4.5, +0.3] and reported one slowdown.
C16_Witness ==
    /\ Returned("identify_trend_changes")
    /\ AskedCode # ""
    /\ IsSlowdownExample(AskedCode)
    /\ last.args.threshold = 5
    /\ Len(last.result.value) = 1

\* ------------------------------------------------------------------ C17
\* find_event_correlations got past its early returns: there are events, and
\* both date columns exist.
CorrelationRan ==
    /\ Returned("find_event_correlations")
    /\ ~IsNone(events)
    /\ Len(events.rows) > 0
    /\ "observation_date" \in observations.columns
    /\ "event_date" \in events.columns

\* The pairs (observation i of the indicator with a known date, event j with
\* a known date) whose event date lies between the observation date minus
\* lag calendar months and the observation date, both included.
PairsInWindow(code, lag) ==
    {p \in (1..Len(observations.rows)) \X (1..Len(events.rows)) :
        LET o == observations.rows[p[1]].observation_date
            e == events.rows[p[2]].event_date
        IN  /\ observations.rows[p[1]].indicator_code = code
            /\ o # NaT
            /\ e # NaT
            /\ ToOrdinal(MinusMonths(o, lag)) <= ToOrdinal(e)
            /\ ToOrdinal(e) <= ToOrdinal(o)}

\* The dates and the value of the row a pair gives.
PairRow(p) ==
    [event_date |-> events.rows[p[2]].event_date,
     observation_date |-> observations.rows[p[1]].observation_date,
     value |-> observations.rows[p[1]].value_numeric]

RowDates(row) ==
    [event_date |-> row.event_date,
     observation_date |-> row.observation_date,
     value |-> row.value]

\* One result row per pair in the window and no other row; the lag of each
\* row is its number of days / 30 within half a tenth.
OneRowPerPair ==
    CorrelationRan =>
        LET rows == last.result.value.rows
            pairs == PairsInWindow(AskedCode, last.args.lag_months)
        IN  /\ Len(rows) = Cardinality(pairs)
            /\ \A p \in pairs :
                  Cardinality({k \in 1..Len(rows) : RowDates(rows[k]) = PairRow(p)})
                      = Cardinality({q \in pairs : PairRow(q) = PairRow(p)})
            /\ \A k \in 1..Len(rows) :
                  LET days == ToOrdinal(rows[k].observation_date)
                              - ToOrdinal(rows[k].event_date)
                  IN  /\ 2 * (3 * rows[k].lag_months - days) <= 3
                      /\ 2 * (days - 3 * rows[k].lag_months) <= 3

\* One observation of the indicator, dated 2021-12-01, asked with 6 months.
IsLagExample ==
    /\ CorrelationRan
    /\ last.args.lag_months = 6
    /\ \A i \in 1..Len(observations.rows) :
          /\ observations.rows[i].indicator_code = AskedCode
          /\ observations.rows[i].observation_date = [y |-> 2021, m |-> 12, d |-> 1]
    /\ Len(observations.rows) = 1

\* In the example, an event of 2021-07-01 gives one row per such event with
\* the given lag (in tenths) and an event of 2021-01-01 gives none.
LagExampleGives(lagTenths) ==
    IsLagExample =>
        LET rows == last.result.value.rows
            july == [y |-> 2021, m |-> 7, d |-> 1]
            january == [y |-> 2021, m |-> 1, d |-> 1]
        IN  /\ Cardinality({k \in 1..Len(rows) : rows[k].event_date = july})
                = Cardinality({j \in 1..Len(events.rows) : events.rows[j].event_date = july})
            /\ \A k \in 1..Len(rows) :
                  /\ rows[k].event_date # january
                  /\ rows[k].event_date = july => rows[k].lag_months = lagTenths

\* C17 as stated: one row per pair in the window, the lag days / 30 to one
\* decimal, and in the example a lag_months of 5.0 for the event of
\* 2021-07-01.
C17_Original == OneRowPerPair /\ LagExampleGives(50)

\* C17: find_event_correlations returns exactly one row for each pair
\* (observation of the indicator with a known date, event with a known date)
\* whose event date lies in the window from the observation date minus
\* lag_months calendar months to the observation date, and no other row; the
\* lag_months of a row is its days / 30 rounded to one decimal.  With one
\* observation of 2021-12-01 and lag_months = 6, an event of 2021-07-01 (153
\* days earlier) gives exactly one row with lag_months 5.1 and an event of
\* 2021-01-01 gives none.
C17_OneRowPerPairInWindow == OneRowPerPair /\ LagExampleGives(51)

\* The example ran with both events in the table and gave one row.
C17_Witness ==
    /\ IsLagExample
    /\ {events.rows[j].event_date : j \in 1..Len(events.rows)}
           = {[y |-> 2021, m |-> 7, d |-> 1], [y |-> 2021, m |-> 1, d |-> 1]}
    /\ Len(last.result.value.rows) = 1

\* ------------------------------------------------------------------ C18
\* Event j is matched with observation i in the result.
Matched(i, j) ==
    \E k \in 1..Len(last.result.value.rows) :
        /\ last.result.value.rows[k].event_date = events.rows[j].event_date
        /\ last.result.value.rows[k].observation_date
               = observations.rows[i].observation_date

\* The dated observations of the asked indicator.
DatedObs ==
    {i \in 1..Len(observations.rows) :
        /\ observations.rows[i].indicator_code = AskedCode
        /\ observations.rows[i].observation_date # NaT}

\* The events dated exactly on the start (obs_date - lag_months) and on the
\* end (obs_date) of the window of observation i.
OnStart(i) ==
    {j \in 1..Len(events.rows) :
        events.rows[j].event_date
            = MinusMonths(observations.rows[i].observation_date, last.args.lag_months)}

OnEnd(i) ==
    {j \in 1..Len(events.rows) :
        events.rows[j].event_date = observations.rows[i].observation_date}

\* C18 as stated: the window is half-open - with two distinct boundary
\* dates, an event on one of them is matched and an event on the other is
\* not.
C18_Original ==
    (CorrelationRan /\ last.args.lag_months > 0) =>
        \A i \in DatedObs : \A s \in OnStart(i), e \in OnEnd(i) :
            Matched(i, s) # Matched(i, e)

\* C18: the window is closed - an event dated exactly on obs_date minus
\* lag_months and an event dated exactly on obs_date are both matched.
C18_BothBoundariesMatched ==
    CorrelationRan =>
        \A i \in DatedObs : \A j \in OnStart(i) \cup OnEnd(i) : Matched(i, j)

\* An observation of 2021-12-01 was correlated, with a lag of 6 months, with
\* one event of 2021-06-01 and one of 2021-12-01, and both were matched.
C18_Witness ==
    /\ CorrelationRan
    /\ last.args.lag_months = 6
    /\ \E i \in DatedObs :
          /\ observations.rows[i].observation_date = [y |-> 2021, m |-> 12, d |-> 1]
          /\ \E s \in OnStart(i), e \in OnEnd(i) :
                /\ events.rows[s].event_date = [y |-> 2021, m |-> 6, d |-> 1]
                /\ Matched(i, s)
                /\ Matched(i, e)

\* ------------------------------------------------------------------ C19
\* C19: find_event_correlations returns an empty result, without raising,
\* when the analyzer has no events table or one with zero rows, when
\* observations has no observation_date column, or when events has no
\* event_date column.
C19_EmptyWithoutEventsOrDates ==
    (Called("find_event_correlations")
        /\ (\/ IsNone(events)
            \/ Len(events.rows) = 0
            \/ "observation_date" \notin observations.columns
            \/ "event_date" \notin events.columns)) =>
        last.result = [outcome |-> "return", value |-> [columns |-> {}, rows |-> <<>>]]

\* find_event_correlations was called with events present and dated, on
\* observations of the indicator that have no observation_date column.
C19_Witness ==
    /\ Called("find_event_correlations")
    /\ ~IsNone(events)
    /\ Len(events.rows) > 0
    /\ "event_date" \in events.columns
    /\ "observation_date" \notin observations.columns
    /\ \E i \in 1..Len(observations.rows) :
          observations.rows[i].indicator_code = AskedCode
    /\ last.result.outcome = "return"

\* ------------------------------------------------------------------ C20
RaisedAnalysisError ==
    last.result = [outcome |-> "raise", exception |-> "AnalysisError"]

ReturnedEmpty ==
    /\ last.result.outcome = "return"
    /\ last.result.value \in {[columns |-> {}, rows |-> <<>>], <<>>}

HasEvents == ~IsNone(events) /\ Len(events.rows) > 0

\* The rows of the observations with the given value in the given column.
NumberWith(col, value) ==
    Cardinality({i \in 1..Len(observations.rows) : observations.rows[i][col] = value})

\* C20: every analyzer method raises AnalysisError when a column it needs is
\* absent (the date columns for find_event_correlations, pillar for
\* analyze_gender_gap and compare_pillars, pillar or confidence for
\* get_key_insights), and returns an empty result without raising when the
\* columns exist but the data is insufficient (no matching rows, fewer than
\* two points).
C20_UniformFailureClasses ==
    /\ (Called("analyze_gender_gap") /\ "pillar" \notin observations.columns)
           => RaisedAnalysisError
    /\ (Called("compare_pillars") /\ "pillar" \notin observations.columns)
           => RaisedAnalysisError
    /\ (Called("get_key_insights")
            /\ ("pillar" \notin observations.columns
                \/ "confidence" \notin observations.columns))
           => RaisedAnalysisError
    /\ (Called("find_event_correlations") /\ HasEvents
            /\ ("observation_date" \notin observations.columns
                \/ "event_date" \notin events.columns))
           => RaisedAnalysisError
    /\ (Called("analyze_gender_gap") /\ "pillar" \in observations.columns
            /\ NumberWith("pillar", "GENDER") = 0)
           => ReturnedEmpty
    /\ (Called("calculate_growth_rate") /\ NumberWith("indicator_code", AskedCode) < 2)
           => ReturnedEmpty
    /\ (Called("identify_trend_changes") /\ NumberWith("indicator_code", AskedCode) < 2)
           => ReturnedEmpty
    /\ (Called("find_event_correlations") /\ HasEvents
            /\ "observation_date" \in observations.columns
            /\ "event_date" \in events.columns
            /\ NumberWith("indicator_code", AskedCode) = 0)
           => ReturnedEmpty

\* ------------------------------------------------------------------ C21
\* compare_pillars returned a summary of observations that have a pillar column.
PillarsCompared ==
    /\ Called("compare_pillars")
    /\ "pillar" \in observations.columns
    /\ last.result.outcome = "return"

\* The rows of observations with the given pillar.
RowsOfPillar(pillar) ==
    {i \in 1..Len(observations.rows) : observations.rows[i].pillar = pillar}

\* The distinct non-missing pillar values present in observations.
PillarsPresent ==
    {observations.rows[i].pillar : i \in 1..Len(observations.rows)} \ {NA}

\* The five figures of one pillar, counted from the observations.
FiguresOf(pillar) ==
    LET years == {observations.rows[i].year : i \in RowsOfPillar(pillar)}
    IN  [pillar |-> pillar,
         observations |-> Cardinality(RowsOfPillar(pillar)),
         indicators |->
             Cardinality({observations.rows[i].indicator_code : i \in RowsOfPillar(pillar)}),
         years_coverage |-> Cardinality(years),
         first_year |-> CHOOSE y \in years : \A z \in years : y <= z,
         last_year |-> CHOOSE y \in years : \A z \in years : y >= z]

\* C21: compare_pillars returns exactly one row per distinct non-missing
\* pillar value present in observations, carrying that pillar's observation
\* count, distinct indicator-code count, distinct-year count, minimum year
\* and maximum year; a pillar without observations has no row, and the rows
\* whose pillar is missing are counted under no pillar.
C21_OneRowPerPillarPresent ==
    PillarsCompared =>
        LET rows == last.result.value.rows
        IN  /\ Len(rows) = Cardinality(PillarsPresent)
            /\ \A pillar \in PillarsPresent :
                  \E k \in 1..Len(rows) : rows[k] = FiguresOf(pillar)
            /\ \A k \in 1..Len(rows) : rows[k].pillar \in PillarsPresent

\* compare_pillars ran on observations holding one ACCESS row and one row
\* without a pillar, and returned the single ACCESS row counting one
\* observation.
C21_Witness ==
    /\ PillarsCompared
    /\ PillarsPresent = {"ACCESS"}
    /\ RowsOfPillar(NA) # {}
    /\ Len(last.result.value.rows) = 1
    /\ last.result.value.rows[1].pillar = "ACCESS"
    /\ last.result.value.rows[1].observations = 1

\* ===================================================================
\* validators.py: validate_dataframe, safe_numeric_conversion and
\* safe_datetime_conversion. A Series is a record of its values, a Python
\* list a record of its items; the cells of an input Series are strings,
\* NA standing for a missing one. A call's outcome carries the entries it
\* sent to the logger.
Series(values) == [values |-> values]

List(items) == [list |-> items]

IsDataFrame(x) == "columns" \in DOMAIN x

IsSeries(x) == "values" \in DOMAIN x

\* raise ValueError(f"{name} <text>"): the message as its parts
ValueError(name, text, detail) ==
    [outcome |-> "raise", exception |-> "ValueError",
     message |-> <<name, text>> \o detail]

\* validate_dataframe with the column check placed before the row check
ValidateDataframeColumnsFirst(frame, required_cols, min_rows, name) ==
    IF IsNone(frame) THEN ValueError(name, "is None", <<>>)
    ELSE IF ~IsDataFrame(frame) THEN ValueError(name, "is not a pandas DataFrame", <<>>)
    ELSE IF ~IsNone(required_cols) /\ Set(required_cols.list) \ frame.columns # {}
         THEN ValueError(name, "missing required columns",
                         <<Set(required_cols.list) \ frame.columns>>)
    ELSE IF NRows(frame) < min_rows
         THEN ValueError(name, "has rows, expected at least", <<NRows(frame), min_rows>>)
    ELSE Returns(TRUE)

ValidateDataframe(frame, required_cols, min_rows, name) ==
    IF IsNone(frame) THEN ValueError(name, "is None", <<>>)
    ELSE IF ~IsDataFrame(frame) THEN ValueError(name, "is not a pandas DataFrame", <<>>)
    ELSE IF NRows(frame) < min_rows
         THEN ValueError(name, "has rows, expected at least", <<NRows(frame), min_rows>>)
    ELSE LET truthy == ~IsNone(required_cols) /\ Len(required_cols.list) > 0
             missing_cols == IF truthy THEN Set(required_cols.list) \ frame.columns ELSE {}
         IN  IF missing_cols # {}
             THEN ValueError(name, "missing required columns", <<missing_cols>>)
             ELSE Returns(TRUE)

\* ------------------------------------------------------------ to_numeric
DigitChars == <<"0", "1", "2", "3", "4", "5", "6", "7", "8", "9">>

IsDigit(c) == \E d \in 1..Len(DigitChars) : DigitChars[d] = c

AllDigits(s) == \A i \in 1..Len(s) : IsDigit(SubSeq(s, i, i))

RECURSIVE DigitsValue(_)
\* the number a string of digits writes (0 for the empty string)
DigitsValue(s) ==
    IF Len(s) = 0 THEN 0
    ELSE 10 * DigitsValue(SubSeq(s, 1, Len(s) - 1))
         + (CHOOSE d \in 1..Len(DigitChars) : DigitChars[d] = SubSeq(s, Len(s), Len(s))) - 1

RECURSIVE PowerOfTen(_)
PowerOfTen(k) == IF k = 0 THEN 1 ELSE 10 * PowerOfTen(k - 1)

RECURSIVE Decimal(_, _)
\* the float num / den, den a power of ten, in lowest decimal terms
Decimal(num, den) ==
    IF den > 1 /\ num % 10 = 0 THEN Decimal(num \div 10, den \div 10)
    ELSE [num |-> num, den |-> den]

\* What pd.to_numeric(errors='coerce') makes of one cell: the number for a
\* plain decimal numeral (optional minus sign, digits, at most one point),
\* NaN for a missing cell and for any other text.
ToNumeric(cell) ==
    IF cell = NA THEN NaN
    ELSE LET negative == Len(cell) > 0 /\ SubSeq(cell, 1, 1) = "-"
             body == IF negative THEN SubSeq(cell, 2, Len(cell)) ELSE cell
             points == {i \in 1..Len(body) : SubSeq(body, i, i) = "."}
             point == IF points = {} THEN Len(body) + 1
                      ELSE CHOOSE i \in points : \A j \in points : i <= j
             whole == SubSeq(body, 1, point - 1)
             fraction == SubSeq(body, point + 1, Len(body))
         IN  IF AllDigits(whole) /\ AllDigits(fraction) /\ Len(whole) + Len(fraction) > 0
             THEN LET magnitude == DigitsValue(whole) * PowerOfTen(Len(fraction))
                                   + DigitsValue(fraction)
                  IN  Num(Decimal(IF negative THEN -magnitude ELSE magnitude,
                                  PowerOfTen(Len(fraction))))
             ELSE NaN

\* safe_numeric_conversion that puts `default` where a cell does not parse
SafeNumericConversionUsingDefault(series, default) ==
    IF IsSeries(series)
    THEN [outcome |-> "return",
          value |-> Series([i \in 1..Len(series.values) |->
                       IF ToNumeric(series.values[i]) = NaN /\ series.values[i] # NA
                       THEN default ELSE ToNumeric(series.values[i])]),
          logged |-> <<>>]
    ELSE [outcome |-> "return", value |-> series,
          logged |-> <<[level |-> "warning", text |-> "Error converting to numeric"]>>]

\* pd.to_numeric raises TypeError for an argument that is not 1-d (a
\* DataFrame); the except clause logs and hands the argument back.
SafeNumericConversion(series, default) ==
    IF IsSeries(series)
    THEN [outcome |-> "return",
          value |-> Series([i \in 1..Len(series.values) |-> ToNumeric(series.values[i])]),
          logged |-> <<>>]
    ELSE [outcome |-> "return", value |-> series,
          logged |-> <<[level |-> "warning", text |-> "Error converting to numeric"]>>]

\* ----------------------------------------------------------- to_datetime
\* What pd.to_datetime(errors='coerce') makes of one cell: the date for a
\* YYYY-MM-DD text naming a day of the calendar, NaT for a missing cell and
\* for any other text.
ToDatetime(cell) ==
    IF cell = NA THEN NaT
    ELSE IF /\ Len(cell) = 10
            /\ SubSeq(cell, 5, 5) = "-"
            /\ SubSeq(cell, 8, 8) = "-"
            /\ AllDigits(SubSeq(cell, 1, 4))
            /\ AllDigits(SubSeq(cell, 6, 7))
            /\ AllDigits(SubSeq(cell, 9, 10))
         THEN LET y == DigitsValue(SubSeq(cell, 1, 4))
                  m == DigitsValue(SubSeq(cell, 6, 7))
                  d == DigitsValue(SubSeq(cell, 9, 10))
              IN  IF y >= 1 /\ m \in 1..12 /\ d >= 1 /\ d <= DaysInMonth(y, m)
                  THEN [y |-> y, m |-> m, d |-> d]
                  ELSE NaT
         ELSE NaT

\* Series.isna().sum()
NaCount(values, missing) == Cardinality({i \in 1..Len(values) : values[i] = missing})

\* safe_datetime_conversion warning whenever the result has a NaT at all
SafeDatetimeConversionCountingAll(series, errors) ==
    LET result == [i \in 1..Len(series.values) |-> ToDatetime(series.values[i])]
        invalid_count == NaCount(result, NaT)
    IN  [outcome |-> "return", value |-> Series(result),
         logged |-> IF invalid_count > 0
                    THEN <<[level |-> "warning", text |-> "invalid dates converted to NaT",
                            count |-> invalid_count]>>
                    ELSE <<>>]

\* pd.to_datetime raises for a DataFrame without year, month and day
\* columns, and with errors='raise' for a cell it cannot parse; the except
\* clause logs an error and hands the argument back.
SafeDatetimeConversion(series, errors) ==
    LET failed == [outcome |-> "return", value |-> series,
                   logged |-> <<[level |-> "error", text |-> "Error converting to datetime"]>>]
    IN  IF ~IsSeries(series) THEN failed
        ELSE LET result == [i \in 1..Len(series.values) |-> ToDatetime(series.values[i])]
                 invalid_count == NaCount(result, NaT) - NaCount(series.values, NA)
             IN  IF errors = "raise" /\ invalid_count > 0 THEN failed
                 ELSE [outcome |-> "return", value |-> Series(result),
                       logged |-> IF invalid_count > 0
                                  THEN <<[level |-> "warning",
                                          text |-> "invalid dates converted to NaT",
                                          count |-> invalid_count]>>
                                  ELSE <<>>]

\* ------------------------------------------------------- helper inputs
MaxSeriesLen == 3

\* DataFrames of columns a and b with up to MaxRows rows, and one without
\* columns or rows.
HelperFrames ==
    { [columns |-> columns, rows |-> [i \in 1..n |-> [c \in columns |-> "1"]]] :
        columns \in {{"a"}, {"a", "b"}}, n \in 0..MaxRows }
    \cup {EmptyFrame}

RequiredColsArgs ==
    {None, List(<<>>), List(<<"a">>), List(<<"a", "b">>), List(<<"a", "b", "c">>)}

NumericCells == {"1", "2.5", "3", "x", "-0.50", NA}

DateCells == {"2021-12-01", "2021-02-30", "2020-02-29", "soon", NA}

\* The Series of up to MaxSeriesLen of the given cells.
SeriesOver(cells) ==
    { Series(values) : values \in UNION { [1..n -> cells] : n \in 0..MaxSeriesLen } }

\* What a caller may hand to a helper: a DataFrame, a Series of texts,
\* None or a plain list.
HelperInputs ==
    HelperFrames \cup SeriesOver(NumericCells) \cup SeriesOver(DateCells)
    \cup {None, List(<<1, 2, 3>>)}

\* ------------------------------------------------ helper state machine
\* No validator and no analyzer: the helpers are module-level functions.
\* df is the object the caller passes as the first argument of each call.
InitHelpers ==
    /\ df \in HelperInputs
    /\ last = [op |-> "none"]
    /\ validation_log = <<>>
    /\ calls = 0
    /\ NoAnalyzer

HelperCall(op, args, result) ==
    /\ last' = [op |-> op, args |-> args, result |-> result]
    /\ UNCHANGED <<df, validation_log, calls, observations, events, analyzer>>

validate_dataframe ==
    \E required_cols \in RequiredColsArgs,
       min_rows \in 0..(MaxRows + 1),
       name \in {"DataFrame", "MyData"} :
        HelperCall("validate_dataframe",
                   [required_cols |-> required_cols, min_rows |-> min_rows, name |-> name],
                   ValidateDataframe(df, required_cols, min_rows, name))

\* pd.to_numeric and pd.to_datetime take a Series or a DataFrame (and fail
\* on the latter); None and plain lists are not passed to them here.
safe_numeric_conversion ==
    /\ IsSeries(df) \/ IsDataFrame(df)
    /\ \E default \in {NaN, Num(Decimal(0, 1))} :
          HelperCall("safe_numeric_conversion", [default |-> default],
                     SafeNumericConversion(df, default))

safe_datetime_conversion ==
    /\ IsSeries(df) \/ IsDataFrame(df)
    /\ \E errors \in {"coerce", "raise"} :
          HelperCall("safe_datetime_conversion", [errors |-> errors],
                     SafeDatetimeConversion(df, errors))

NextHelpers ==
    \/ validate_dataframe
    \/ safe_numeric_conversion
    \/ safe_datetime_conversion

SpecHelpers == InitHelpers /\ [][NextHelpers]_vars

\* ------------------------------------------------------------------ C22
\* The required columns the frame passed to validate_dataframe lacks.
LackingCols ==
    IF IsNone(last.args.required_cols) THEN {}
    ELSE {last.args.required_cols.list[i] : i \in 1..Len(last.args.required_cols.list)}
         \ df.columns

\* The text of the first check that fails, in the order None,
\* not-a-DataFrame, too-few-rows, missing-columns ("" when none fails).
FirstFailingCheck ==
    IF "none" \in DOMAIN df THEN "is None"
    ELSE IF "columns" \notin DOMAIN df THEN "is not a pandas DataFrame"
    ELSE IF Len(df.rows) < last.args.min_rows THEN "has rows, expected at least"
    ELSE IF LackingCols # {} THEN "missing required columns"
    ELSE ""

\* C22: validate_dataframe(df, required_cols, min_rows, name) returns True
\* iff df is a DataFrame with at least min_rows rows that has every required
\* column, and otherwise raises ValueError with a message containing name;
\* the error raised is the one of the first failing check in the order
\* None, not-a-DataFrame, too-few-rows, missing-columns.
C22_FirstFailingCheckRaised ==
    Called("validate_dataframe") =>
        IF FirstFailingCheck = ""
        THEN last.result = [outcome |-> "return", value |-> TRUE]
        ELSE /\ last.result.outcome = "raise"
             /\ last.result.exception = "ValueError"
             /\ last.result.message[1] = last.args.name
             /\ last.result.message[2] = FirstFailingCheck

\* validate_dataframe was called as validate_dataframe(df, ['a', 'b', 'c'],
\* min_rows, name='MyData') on a frame with too few rows that also lacks a
\* required column, and raised the too-few-rows error naming MyData.
C22_Witness ==
    /\ Called("validate_dataframe")
    /\ last.args.name = "MyData"
    /\ "columns" \in DOMAIN df
    /\ Len(df.rows) = 1
    /\ last.args.min_rows = 2
    /\ LackingCols = {"b", "c"}
    /\ last.result.outcome = "raise"
    /\ last.result.message = <<"MyData", "has rows, expected at least", 1, 2>>

\* ------------------------------------------------------------------ C23
\* The cells that write a number, and the number each writes.
Numerals == {"1", "2.5", "3", "-0.50"}

NumberOf(cell) ==
    CASE cell = "1" -> [num |-> 1, den |-> 1]
      [] cell = "2.5" -> [num |-> 25, den |-> 10]
      [] cell = "3" -> [num |-> 3, den |-> 1]
      [] cell = "-0.50" -> [num |-> -5, den |-> 10]

YearOf(date) == IF date = NaT THEN NaN ELSE Num(date.y)

\* frame[target] = pd.to_datetime(frame['observation_date'], errors='coerce')
\* and frame['year'] = frame[target].dt.year
WithDates(frame, target) ==
    LET columns == frame.columns \cup {target, "year"}
        Parsed(i) == ToDatetime(frame.rows[i]["observation_date"])
    IN  [columns |-> columns,
         rows |-> [i \in 1..NRows(frame) |->
                     [c \in columns |->
                         IF c = target THEN Parsed(i)
                         ELSE IF c = "year" THEN YearOf(Parsed(i))
                         ELSE frame.rows[i][c]]]]

\* the early return on no rows of the type, taken after the dates
WithDatesAlways(frame, target) ==
    IF "observation_date" \in frame.columns THEN Returns(WithDates(frame, target))
    ELSE Raises("DataLoadError")

\* the first line after the filter, if len(...) == 0: return the filtered frame
WithDatesUnlessEmpty(frame, target) ==
    IF NRows(frame) = 0 THEN Returns(frame)
    ELSE IF "observation_date" \in frame.columns THEN Returns(WithDates(frame, target))
    ELSE Raises("DataLoadError")

\* The body shared by get_observations and get_events: a missing
\* observation_date column raises KeyError inside the try block, which the
\* except clause turns into DataLoadError.
Extract(df_data, record_type, target) ==
    IF IsNone(df_data) THEN Returns(EmptyFrame)
    ELSE IF NRows(df_data) = 0 THEN Returns(EmptyFrame)
    ELSE IF "record_type" \notin df_data.columns THEN Raises("DataLoadError")
    ELSE WithDatesUnlessEmpty(WhereEq(df_data, "record_type", record_type), target)

GetObservations(df_data) == Extract(df_data, "observation", "observation_date")

GetEvents(df_data) == Extract(df_data, "event", "event_date")

\* --------------------------------------------------------- loader inputs
LoaderColumns == {"record_id", "record_type", "observation_date"}

LoaderDates == {"2021-12-01", "2021-02-30", NA}

\* Unified tables of up to MaxRows observation, event and target rows with
\* parseable, unparseable and missing dates, any one column absent; and no
\* table at all.
LoaderTables ==
    { [columns |-> LoaderColumns \ dropped,
       rows |-> [i \in 1..Len(kinds) |->
                   [c \in LoaderColumns \ dropped |->
                       IF c = "record_id" THEN ToString(i)
                       ELSE IF c = "record_type" THEN kinds[i][1]
                       ELSE kinds[i][2]]]] :
        kinds \in UNION { [1..n -> {"observation", "event", "target"} \X LoaderDates] :
                            n \in 0..MaxRows },
        dropped \in {{}, {"record_type"}, {"observation_date"}} }
    \cup {None}

\* -------------------------------------------------- loader state machine
InitLoader ==
    /\ df \in LoaderTables
    /\ last = [op |-> "none"]
    /\ validation_log = <<>>
    /\ calls = 0
    /\ NoAnalyzer

get_observations == HelperCall("get_observations", <<>>, GetObservations(df))

get_events == HelperCall("get_events", <<>>, GetEvents(df))

NextLoader ==
    \/ get_observations
    \/ get_events

SpecLoader == InitLoader /\ [][NextLoader]_vars

\* ------------------------------------------------------------------ C24
\* The record type a loader call extracts and the date field it derives.
ExtractedType == IF Called("get_observations") THEN "observation" ELSE "event"

DerivedDate == IF Called("get_observations") THEN "observation_date" ELSE "event_date"

\* get_observations or get_events returned, on a table with a record_type column.
Extracted ==
    /\ Called("get_observations") \/ Called("get_events")
    /\ "columns" \in DOMAIN df
    /\ "record_type" \in df.columns
    /\ last.result.outcome = "return"

\* The record ids of the table's rows of the extracted type, in table order.
WantedIds ==
    LET wanted == SelectSeq(df.rows, LAMBDA r : r["record_type"] = ExtractedType)
    IN  [k \in 1..Len(wanted) |-> wanted[k]["record_id"]]

\* The row of the table with the given record id.
SourceRow(id) == df.rows[CHOOSE i \in 1..Len(df.rows) : df.rows[i]["record_id"] = id]

\* The year a date text names: 2021 for the one parseable text of the tables.
YearNamed(text) == IF text = "2021-12-01" THEN <<2021>> ELSE <<>>

\* The returned rows are exactly the table's rows of the extracted type.
ExactlyTheRowsOfTheType ==
    LET out == last.result.value.rows
    IN  IF WantedIds = <<>> THEN out = <<>>
        ELSE [k \in 1..Len(out) |-> out[k]["record_id"]] = WantedIds

\* Every returned row carries year (and the derived date field), equal to
\* the year of the row's date and missing when the date does not parse.
RowsCarryYear ==
    /\ {"year", DerivedDate} \subseteq last.result.value.columns
    /\ \A k \in 1..Len(last.result.value.rows) :
          LET row == last.result.value.rows[k]
              text == SourceRow(row["record_id"])["observation_date"]
          IN  /\ row["year"] = YearNamed(text)
              /\ (row[DerivedDate] = [y |-> 0, m |-> 0, d |-> 0]) <=> (YearNamed(text) = <<>>)

\* C24 as stated: get_observations returns exactly the rows with
\* record_type 'observation' and get_events exactly those with 'event', and
\* every returned frame carries a derived year field (plus event_date for
\* events) equal to the year of the row's date, missing when the date is
\* unparseable.
C24_Original ==
    Extracted => (ExactlyTheRowsOfTheType /\ RowsCarryYear)

\* C24: get_observations returns exactly the rows with record_type
\* 'observation' and get_events exactly those with 'event', leaving the
\* table unchanged; a returned frame with at least one row carries a derived
\* year field (plus event_date for events) equal to the year of the row's
\* date, missing when the date is unparseable, and a returned frame without
\* rows carries no derived field.
C24_SplitWithYearWhenRows ==
    /\ [][df' = df]_vars
    /\ [](Extracted =>
            /\ ExactlyTheRowsOfTheType
            /\ IF WantedIds # <<>> THEN RowsCarryYear
               ELSE "year" \notin last.result.value.columns)

\* get_events ran on a table holding an observation and an event with an
\* unparseable date, and returned the event alone, its year missing.
C24_Witness ==
    /\ Extracted
    /\ Called("get_events")
    /\ Len(df.rows) = 2
    /\ df.rows[1]["record_type"] = "observation"
    /\ WantedIds = <<"2">>
    /\ df.rows[2]["observation_date"] = "2021-02-30"
    /\ Len(last.result.value.rows) = 1
    /\ last.result.value.rows[1]["year"] = <<>>
    /\ last.result.value.rows[1]["observation_date"] = "2021-02-30"

\* ------------------------------------------------------------------ C25
\* The table holds the indicator's observations against year order.
StoredAgainstYearOrder(code) ==
    \E i, j \in 1..Len(observations.rows) :
        /\ i < j
        /\ observations.rows[i].indicator_code = code
        /\ observations.rows[j].indicator_code = code
        /\ observations.rows[i].year > observations.rows[j].year

\* C25: calculate_growth_rate(code) orders the indicator's observations by
\* year ascending whatever their order in the table, and reports for each
\* consecutive pair growth_pp = v[t] - v[t-1] and growth_rate =
\* (v[t] - v[t-1]) / v[t-1] * 100, v[t-1] being the value of the point
\* immediately before in year order.
C25_GrowthAgainstPrecedingYear ==
    (Returned("calculate_growth_rate") /\ AskedCode # "" /\ NPoints(AskedCode) >= 2) =>
        LET rows == last.result.value.rows
        IN  /\ \A k \in 1..(Len(rows) - 1) : rows[k].year < rows[k + 1].year
            /\ \A k \in 2..Len(rows) :
                  LET before == PointAt(AskedCode, k - 1).value_numeric
                      now == PointAt(AskedCode, k).value_numeric
                  IN  /\ rows[k].growth_pp = <<now - before>>
                      /\ rows[k].growth_rate[1].num * before
                            = (now - before) * 100 * rows[k].growth_rate[1].den

\* calculate_growth_rate returned for an indicator of at least three points
\* that the table holds in descending year order.
C25_Witness ==
    /\ Returned("calculate_growth_rate")
    /\ AskedCode # ""
    /\ NPoints(AskedCode) >= 3
    /\ StoredAgainstYearOrder(AskedCode)
    /\ Len(last.result.value.rows) = NPoints(AskedCode)
    /\ last.result.value.rows[3].growth_pp # <<>>

\* ------------------------------------------------------------------ C26
\* A conversion helper was called on a Series and converted it (the call
\* did not end in its except clause).
Converted ==
    /\ Called("safe_numeric_conversion") \/ Called("safe_datetime_conversion")
    /\ "values" \in DOMAIN df
    /\ \A k \in 1..Len(last.result.logged) :
          "count" \in DOMAIN last.result.logged[k]

\* The missing value of the helper's output.
MissingOut ==
    IF Called("safe_numeric_conversion") THEN <<>> ELSE [y |-> 0, m |-> 0, d |-> 0]

\* The elements that were present in the input and are missing in the output.
NewlyMissing ==
    IF Converted
    THEN Cardinality({i \in 1..Len(df.values) :
                        df.values[i] # NA /\ last.result.value.values[i] = MissingOut})
    ELSE 0

\* The counts carried by the warnings the call logged.
CountsWarned ==
    {last.result.logged[k].count :
        k \in {j \in 1..Len(last.result.logged) :
                 /\ last.result.logged[j].level = "warning"
                 /\ "count" \in DOMAIN last.result.logged[j]}}

\* C26: safe_numeric_conversion and safe_datetime_conversion each log a
\* warning carrying the count of newly missing elements exactly when at
\* least one element that was present in the input is missing in the output,
\* and log no such warning otherwise.
C26_WarnsExactlyWhenNewlyMissing ==
    (Called("safe_numeric_conversion") \/ Called("safe_datetime_conversion")) =>
        CountsWarned = IF NewlyMissing > 0 THEN {NewlyMissing} ELSE {}

\* ------------------------------------------------------------------ C27
\* C27: get_key_insights returns a list of exactly five strings, in the
\* order temporal span, recent-data concentration (year >= 2024), dominant
\* pillar by count, percentage of high-confidence records, event category
\* count, for every analyzer that was constructed successfully, with or
\* without events.
C27_AlwaysFiveInsights ==
    Called("get_key_insights") =>
        /\ last.result.outcome = "return"
        /\ [k \in 1..Len(last.result.value) |-> last.result.value[k].text]
              = << "Dataset spans",
                   "of observations are from 2024 onwards",
                   "pillar has the most data",
                   "of observations have high confidence",
                   "events documented across categories" >>

\* ------------------------------------------------------------------ C28
\* The entries a step appended to validation_log.
Appended == SubSeq(validation_log', Len(validation_log) + 1, Len(validation_log'))

\* The name a sub-validator logs under.
CheckName(op) ==
    CASE op = "validate_schema" -> "schema"
      [] op = "validate_pillar_rules" -> "pillar_rules"
      [] op = "validate_record_types" -> "record_types"

\* The entries validate_all's report stands for, the schema one left out
\* for a table without rows.
EntriesOfReport(report) ==
    (IF report.total_records = 0 THEN <<>>
     ELSE <<[check |-> "schema", passed |-> report.schema_validation.passed,
             errors |-> report.schema_validation.errors]>>)
    \o <<[check |-> "pillar_rules", passed |-> report.pillar_validation.passed,
          errors |-> report.pillar_validation.errors],
         [check |-> "record_types", passed |-> report.record_type_validation.passed,
          errors |-> report.record_type_validation.errors]>>

\* C28: the validation_log of one DataValidator only grows: every call of
\* validate_schema, validate_pillar_rules or validate_record_types that
\* returns appends exactly one entry {check, passed, errors} matching what it
\* returns, except that validate_schema on a table without rows appends
\* nothing; a validate_all that returns appends three entries on a table
\* with rows and two on one without; no entry is removed or altered.
C28_LogOnlyGrows ==
    [][ /\ Len(validation_log') >= Len(validation_log)
        /\ SubSeq(validation_log', 1, Len(validation_log)) = validation_log
        /\ (last'.result.outcome = "return" /\ last'.op # "validate_all") =>
              Appended = IF last'.op = "validate_schema" /\ Len(df'.rows) = 0
                         THEN <<>>
                         ELSE <<[check |-> CheckName(last'.op),
                                 passed |-> last'.result.is_valid,
                                 errors |-> last'.result.errors]>>
        /\ (last'.result.outcome = "return" /\ last'.op = "validate_all") =>
              /\ Len(Appended) = IF Len(df'.rows) = 0 THEN 2 ELSE 3
              /\ Appended = EntriesOfReport(last'.result.report)
      ]_vars

\* A second call, validate_all on a table with every column and no row,
\* returned and left two more entries in a log that held one already.
C28_Witness ==
    /\ Returned("validate_all")
    /\ calls = 2
    /\ Len(df.rows) = 0
    /\ Len(validation_log) = 3
    /\ validation_log[2].check = "pillar_rules"
    /\ validation_log[3].check = "record_types"

\* ------------------------------------------------------------------ C29
\* The positions, in year order, of the points of the asked indicator that
\* the returned changes name.
FlaggedPositions ==
    LET changes == last.result.value
    IN  IF AskedCode = "" THEN {}
        ELSE {k \in 1..NPoints(AskedCode) :
                 \E j \in 1..Len(changes) : changes[j].year = PointAt(AskedCode, k).year}

\* C29: identify_trend_changes never flags two adjacent points of the
\* year-sorted series and never flags either of its first two points, so a
\* series of n points yields at most floor((n-1)/2) changes (none when the
\* indicator has no point); with a threshold of zero or less it returns no
\* changes at all.
C29_NoAdjacentNoEarlyFlags ==
    Returned("identify_trend_changes") =>
        LET changes == last.result.value
            n == IF AskedCode = "" THEN 0 ELSE NPoints(AskedCode)
        IN  /\ Cardinality(FlaggedPositions) = Len(changes)
            /\ \A k \in FlaggedPositions : k + 1 \notin FlaggedPositions
            /\ FlaggedPositions \cap {1, 2} = {}
            /\ n >= 1 => Len(changes) <= (n - 1) \div 2
            /\ n = 0 => changes = <<>>
            /\ last.args.threshold <= 0 => changes = <<>>

\* identify_trend_changes flagged the last of MaxPoints points, the most a
\* series of that length allows, the point before it being at the threshold.
C29_Witness ==
    /\ Returned("identify_trend_changes")
    /\ AskedCode # ""
    /\ NPoints(AskedCode) = MaxPoints
    /\ FlaggedPositions = {MaxPoints}
    /\ Len(last.result.value) = (MaxPoints - 1) \div 2
    /\ Abs(ChangeAt(AskedCode, MaxPoints - 1)) = last.args.threshold

\* ------------------------------------------------------------------ C30
\* The observations of the asked indicator a result row can stem from.
ObservationsOfRow(row) ==
    {i \in 1..Len(observations.rows) :
        /\ observations.rows[i].indicator_code = AskedCode
        /\ observations.rows[i].observation_date = row.observation_date
        /\ observations.rows[i].value_numeric = row.value}

\* The events a result row can stem from.
EventsOfRow(row) ==
    {j \in 1..Len(events.rows) : events.rows[j].event_date = row.event_date}

\* C30: with lag_months >= 0, every row find_event_correlations returns has
\* event_date <= observation_date and lag_months >= 0, stems from an
\* observation of the asked indicator code and from an event, and holds no
\* missing date; there are at most (observations of the code) x (events)
\* rows, and they come grouped by observation in ascending order of
\* observation_date.
C30_RowsWithinWindowInDateOrder ==
    (Returned("find_event_correlations") /\ last.args.lag_months >= 0) =>
        LET rows == last.result.value.rows
            ofCode == {i \in 1..Len(observations.rows) :
                          observations.rows[i].indicator_code = AskedCode}
        IN  /\ \A k \in 1..Len(rows) :
                  /\ rows[k].event_date # NaT
                  /\ rows[k].observation_date # NaT
                  /\ ToOrdinal(rows[k].event_date) <= ToOrdinal(rows[k].observation_date)
                  /\ rows[k].lag_months >= 0
                  /\ ObservationsOfRow(rows[k]) # {}
                  /\ EventsOfRow(rows[k]) # {}
            /\ Len(rows) > 0 => Len(rows) <= Cardinality(ofCode) * Len(events.rows)
            /\ \A k \in 1..(Len(rows) - 1) :
                  ToOrdinal(rows[k].observation_date)
                      <= ToOrdinal(rows[k + 1].observation_date)
            /\ \A k, m \in 1..Len(rows) :
                  (k < m /\ rows[k].observation_date = rows[m].observation_date
                         /\ rows[k].value = rows[m].value) =>
                      \A n \in k..m :
                          /\ rows[n].observation_date = rows[k].observation_date
                          /\ rows[n].value = rows[k].value

\* find_event_correlations returned rows for two observations of the
\* indicator that are stored latest first: the rows of the earlier
\* observation come before those of the later one.
C30_Witness ==
    /\ Returned("find_event_correlations")
    /\ Len(observations.rows) = 3
    /\ Len(last.result.value.rows) >= 2
    /\ last.result.value.rows[1].observation_date = observations.rows[3].observation_date
    /\ last.result.value.rows[Len(last.result.value.rows)].observation_date
           = observations.rows[1].observation_date
    /\ observations.rows[1].observation_date # observations.rows[3].observation_date

====
